---- MODULE Spec2Model ----
(***************************************************************************)
(* Deployment orchestration engine of the n8n multi-cloud setup script     *)
(* (src/setup.py): the environment state store, the configuration artifact *)
(* manager (FileUpdater) and the phase orchestrator (main).                *)
(***************************************************************************)
EXTENDS Integers, Sequences, FiniteSets, TLC

VARIABLES
    \* ---- environment state store: files of the terraform directories
    tfstate,      \* [Dirs -> Content]: terraform.tfstate of each directory
    backups,      \* [Dirs -> [BackupNames -> Content]]: terraform.tfstate.<key>.backup
    now,          \* int(time.time())
    call,         \* the last state-store call: operation, key, result (history)
    preserved,    \* states a restore copied to a timestamp backup and overwrote (history)
    \* ---- configuration artifact manager (FileUpdater)
    files,        \* [FileNames -> content]: the live configuration tree
    backup_dir,   \* FileUpdater.backup_dir: 0 (None) or a temporary directory
    tmpdirs,      \* [1..MaxBackupDirs -> FreeDir | DeletedDir | backed-up files]
    fuCall,       \* the last FileUpdater call and whether it raised (history)
    preApply,     \* the live tree before the last apply_configuration (history)
    nfu,          \* number of FileUpdater calls made (history)
    \* ---- main(): one deployment run
    pc,           \* the statement of main the run is at
    cloud,        \* cloud_provider
    deploy_config, \* config: the deployment configuration collected
    updater,      \* 'updater' in locals()
    tfdir,        \* the directory of the TerraformRunner at work
    cred,         \* the account check: "none", "ok", "failed"
    tfdone,       \* the terraform steps of this runner that succeeded
    phases,       \* the phases completed, in order (history)
    invoked,      \* the external commands run (history)
    outputs,      \* the names in tf_runner.get_outputs()
    lb_url,       \* loadbalancer_url
    exc,          \* the exception raised to main's handlers
    exit_code,    \* sys.exit status; -1 while running
    hist,         \* what happened in the run so far (history)
    \* ---- get_loadbalancer_url called on its own
    poll_in,      \* the arguments and what each probe of the call answers
    poll_out,     \* what the call did and returned
    \* ---- main() with --teardown
    teardown,     \* the teardown run: where it is, what it ran, how it ended
    \* ---- CertificateValidator.validate_certificate_chain called on its own
    cert_in,      \* the arguments and what openssl and the file system answer
    cert_out,     \* what the call returned or raised and the files it left
    \* ---- the configuration values of a run, from the prompts or terraform.tfvars
    setup,        \* where the run is, its config and the steps it started
    \* ---- configure_tls_interactive on the bring-your-own path
    byo           \* where the call is, what it validated, created and left behind

storeVars == <<tfstate, backups, now, call, preserved>>

fuVars == <<files, backup_dir, tmpdirs, fuCall, preApply, nfu>>

mainVars == <<pc, cloud, deploy_config, updater, tfdir, cred, tfdone, phases, invoked,
             outputs, lb_url, exc, exit_code, hist>>

pollVars == <<poll_in, poll_out>>

certVars == <<cert_in, cert_out>>

extVars == <<setup, byo>>

vars == <<tfstate, backups, now, call, preserved,
          files, backup_dir, tmpdirs, fuCall, preApply, nfu,
          pc, cloud, deploy_config, updater, tfdir, cred, tfdone, phases, invoked,
          outputs, lb_url, exc, exit_code, hist, poll_in, poll_out, teardown,
          cert_in, cert_out, setup, byo>>

(***************************************************************************)
(* Bounds of the model                                                     *)
(***************************************************************************)
MaxTime       == 2      \* clock seconds the model runs through
MaxBackupDirs == 2      \* temporary directories mkdtemp can hand out
MaxFuCalls    == 3      \* FileUpdater calls in one behaviour
MaxAttempts   == 3      \* the largest max_attempts of a poll called on its own
PollBudget    == 2      \* max_attempts of the polls of main (30 in the source)
MaxSans       == 2      \* the most SAN entries of a certificate
MaxKeyEntries == 2      \* keys the operator types at the encryption-key prompt

(***************************************************************************)
(* File contents                                                           *)
(***************************************************************************)
\* States that hold managed resources (state_data.get('resources') truthy).
ResourceStates == {"A", "B"}

\* "absent": no file; "corrupt": not parseable as JSON (also a truncated
\* copy); "empty": parseable, no resources.
Content == ResourceStates \cup {"absent", "corrupt", "empty"}

\* json.load succeeds and state_data.get('resources') is truthy.
HasResources(c) == c \in ResourceStates

Dirs == {"aws", "azure"}

\* Keys an operator can name; "1" consists only of digits.
RegionKeys == {"r1", "r2", "1"}

Times == 1..MaxTime

\* f"{timestamp}" of int(time.time()), tabulated over the clock's range
TsKeys == [t \in Times |-> ToString(t)]

TsKey(t) == TsKeys[t]

AllKeys == RegionKeys \cup {TsKey(t) : t \in Times}

\* terraform_dir / f"terraform.tfstate.{region}.backup", tabulated
BackupFileNames == [k \in AllKeys |-> "terraform.tfstate." \o k \o ".backup"]

BackupName(k) == BackupFileNames[k]

BackupNames == {BackupName(k) : k \in AllKeys}

(***************************************************************************)
(* shutil.copy2: outcomes of one copy                                      *)
(*   ok    - copied                                                        *)
(*   open  - raises before the destination is touched                      *)
(*   write - raises after the destination was truncated                    *)
(*   stat  - data copied, copystat raises                                  *)
(***************************************************************************)
CopyOutcomes == {"ok", "open", "write", "stat"}

Raises(io) == io # "ok"

\* The destination's content after shutil.copy2(src, dst) with outcome io.
copy2(src, dst, io) ==
    CASE io = "ok"    -> src
      [] io = "stat"  -> src
      [] io = "open"  -> dst
      [] io = "write" -> "corrupt"

(***************************************************************************)
(* save_state_for_region(terraform_dir, region)                            *)
(***************************************************************************)
\* as save_state_for_region, without the check for an empty state
save_state_for_region_no_resource_check(live, bk, region, io) ==
    IF live = "absent"
      THEN [backups |-> bk, ret |-> FALSE]
    ELSE [ backups |-> [bk EXCEPT ![BackupName(region)] = copy2(live, @, io)],
           ret     |-> ~Raises(io) ]

\* as save_state_for_region, reporting success also when the copy raised
save_state_for_region_always_true(live, bk, region, io) ==
    IF live = "absent"
      THEN [backups |-> bk, ret |-> FALSE]
    ELSE IF ~HasResources(live)
      THEN [backups |-> bk, ret |-> FALSE]
    ELSE [ backups |-> [bk EXCEPT ![BackupName(region)] = copy2(live, @, io)],
           ret     |-> TRUE ]

save_state_for_region(live, bk, region, io) ==
    IF live = "absent"
      THEN [backups |-> bk, ret |-> FALSE]
    ELSE IF ~HasResources(live)
      THEN [backups |-> bk, ret |-> FALSE]
    ELSE [ backups |-> [bk EXCEPT ![BackupName(region)] = copy2(live, @, io)],
           ret     |-> ~Raises(io) ]

(***************************************************************************)
(* restore_state_for_region(terraform_dir, region)                         *)
(*   io1: the copy of the current state to the timestamp backup            *)
(*   io2: the copy of the region backup over the live state                *)
(***************************************************************************)
\* as restore_state_for_region, with the timestamp backup of the current
\* state made before the look-up of the region backup
restore_state_for_region_backup_first(live, bk, region, t, io1, io2) ==
    LET bk1 == IF live # "absent" /\ HasResources(live)
                 THEN [bk EXCEPT ![BackupName(TsKey(t))] = copy2(live, @, io1)]
                 ELSE bk
    IN  IF bk[BackupName(region)] = "absent"
          THEN [tfstate |-> live, backups |-> bk1, ret |-> FALSE]
          ELSE [ tfstate |-> copy2(bk1[BackupName(region)], live, io2),
                 backups |-> bk1,
                 ret     |-> ~Raises(io2) ]

restore_state_for_region(live, bk, region, t, io1, io2) ==
    IF bk[BackupName(region)] = "absent"
      THEN [tfstate |-> live, backups |-> bk, ret |-> FALSE]
    ELSE
      LET bk1 == IF live # "absent" /\ HasResources(live)
                   THEN [bk EXCEPT ![BackupName(TsKey(t))] = copy2(live, @, io1)]
                   ELSE bk
      IN  [ tfstate |-> copy2(bk1[BackupName(region)], live, io2),
            backups |-> bk1,
            ret     |-> ~Raises(io2) ]

(***************************************************************************)
(* Configuration artifacts                                                 *)
(***************************************************************************)
\* terraform/aws: the files FileUpdater touches and one it does not
TfDirFiles == {"variables.tf", "main.tf", "terraform.tfvars"}

\* terraform_dir.glob("*.tf"): the names ending in ".tf"
TfGlob == {"variables.tf", "main.tf"}

\* charts/n8n, copied as a tree
HelmFiles == {"values.yaml", "Chart.yaml"}

\* terraform/azure/terraform.tfvars and the two configuration history files
OtherFiles == {"azure/terraform.tfvars", ".setup-current.json", "setup_history.log"}

FileNames == TfDirFiles \cup HelmFiles \cup OtherFiles

\* The configuration record: the fields the artifacts are written from.
Configs ==
    { [aws_region |-> "r1", n8n_host |-> "h1", database_type |-> "sqlite"],
      [aws_region |-> "r2", n8n_host |-> "h2", database_type |-> "postgresql"] }

\* File contents are records: no file, a truncated file, or a text.
NoFile == [kind |-> "absent"]

Truncated == [kind |-> "partial"]

Text(body) == [kind |-> "text", body |-> body]

\* variables.tf is its named variables' defaults ("none": the file has no
\* such block); every other part of the text is left alone by the rewrite.
\* _update_variable_default(content, var_name, value)
update_variable_default(content, var_name, value) ==
    IF var_name \notin DOMAIN content THEN content
    ELSE IF content[var_name] = "none" THEN content
    ELSE [content EXCEPT ![var_name] = value]

\* update_terraform_variables: the new text of variables.tf
update_terraform_variables(content, config) ==
    LET c1 == IF config.aws_region # ""
                THEN update_variable_default(content, "region", config.aws_region)
                ELSE content
    IN  IF config.n8n_host # ""
          THEN update_variable_default(c1, "n8n_host", config.n8n_host)
          ELSE c1

\* _replace_yaml_value(content, key, value): the line of the key, if any
replace_yaml_value(content, key, value) ==
    IF key \notin DOMAIN content THEN content
    ELSE IF content[key] = "none" THEN content
    ELSE [content EXCEPT ![key] = value]

\* update_helm_values: the new text of values.yaml
update_helm_values(content, config) ==
    replace_yaml_value(content, "host", config.n8n_host)

\* create_terraform_tfvars: the generated text, with the RDS block only for
\* PostgreSQL
create_terraform_tfvars(config) ==
    [ kind          |-> "tfvars",
      region        |-> config.aws_region,
      n8n_host      |-> config.n8n_host,
      database_type |-> config.database_type,
      rds_block     |-> config.database_type = "postgresql" ]

\* Path.write_text: "ok"; "open": raises, file untouched (also a failed
\* read_text before it); "write": raises after the file was truncated.
WriteOutcomes == {"ok", "open", "write"}

write_text(new, old, io) ==
    CASE io = "ok"    -> new
      [] io = "open"  -> old
      [] io = "write" -> Truncated

\* A temporary directory name not used yet, and a removed directory
FreeDir == [kind |-> "free"]

DeletedDir == [kind |-> "deleted"]

\* tempfile.mkdtemp: a directory that does not exist yet
mkdtemp(dirs) == CHOOSE i \in 1..MaxBackupDirs :
                    /\ dirs[i] = FreeDir
                    /\ \A j \in 1..(i - 1) : dirs[j] # FreeDir

\* FileUpdater.create_backup: the *.tf files and the helm tree, copied
create_backup(fs, dirs) ==
    LET d == mkdtemp(dirs)
    IN  [ backup_dir |-> d,
          tmpdirs    |-> [dirs EXCEPT ![d] =
                            [ kind      |-> "backup",
                              terraform |-> [f \in TfGlob |-> fs[f]],
                              helm      |-> [f \in HelmFiles |-> fs[f]] ]] ]

\* self.backup_dir and self.backup_dir.exists()
BackupExists(bdir, dirs) == bdir # 0 /\ dirs[bdir].kind = "backup"

\* as restore_backup, removing the generated tfvars files when there is no
\* backup to copy from
restore_backup_clears_generated(fs, bdir, dirs) ==
    IF ~BackupExists(bdir, dirs)
      THEN [f \in FileNames |->
              IF f \in {"terraform.tfvars", "azure/terraform.tfvars"} THEN NoFile ELSE fs[f]]
    ELSE [f \in FileNames |->
            IF f \in TfGlob /\ dirs[bdir].terraform[f] # NoFile
              THEN dirs[bdir].terraform[f]
            ELSE IF f \in HelmFiles /\ dirs[bdir].helm[f] # NoFile
              THEN dirs[bdir].helm[f]
            ELSE fs[f]]

\* FileUpdater.restore_backup: every backed-up file copied back
restore_backup(fs, bdir, dirs) ==
    IF ~BackupExists(bdir, dirs) THEN fs
    ELSE [f \in FileNames |->
            IF f \in TfGlob /\ dirs[bdir].terraform[f] # NoFile
              THEN dirs[bdir].terraform[f]
            ELSE IF f \in HelmFiles /\ dirs[bdir].helm[f] # NoFile
              THEN dirs[bdir].helm[f]
            ELSE fs[f]]

\* FileUpdater.cleanup_backup
cleanup_backup(bdir, dirs) ==
    IF BackupExists(bdir, dirs) THEN [dirs EXCEPT ![bdir] = DeletedDir] ELSE dirs

\* No failure, or the mutation step that raises and how.
Failures == {[step |-> 0, io |-> "ok"]}
            \cup [step : 1..3, io : {"open", "write"}]

Outcome(fail, step) == IF fail.step = step THEN fail.io ELSE "ok"

\* FileUpdater.apply_configuration(config): create_backup, then the three
\* mutation steps; an exception of a step runs restore_backup and is raised
\* again.
apply_configuration(fs, dirs, config, fail) ==
    LET b  == create_backup(fs, dirs)
        f1 == [fs EXCEPT !["variables.tf"] =
                 write_text(update_terraform_variables(@, config), @, Outcome(fail, 1))]
        f2 == [f1 EXCEPT !["values.yaml"] =
                 write_text(update_helm_values(@, config), @, Outcome(fail, 2))]
        f3 == [f2 EXCEPT !["terraform.tfvars"] =
                 write_text(create_terraform_tfvars(config), @, Outcome(fail, 3))]
        reached == CASE fail.step = 1 -> f1
                     [] fail.step = 2 -> f2
                     [] OTHER         -> f3
    IN  IF fail.step = 0
          THEN [files |-> f3, backup_dir |-> b.backup_dir, tmpdirs |-> b.tmpdirs,
                raised |-> FALSE]
          ELSE [files |-> restore_backup(reached, b.backup_dir, b.tmpdirs),
                backup_dir |-> b.backup_dir, tmpdirs |-> b.tmpdirs,
                raised |-> TRUE]

\* The Azure configuration record
AzureConfigs ==
    { [azure_location |-> "r1", n8n_host |-> "h1", database_type |-> "sqlite"],
      [azure_location |-> "r2", n8n_host |-> "h2", database_type |-> "postgresql"] }

\* create_terraform_tfvars_azure: the generated text, with the PostgreSQL
\* block only for PostgreSQL
create_terraform_tfvars_azure(cfg) ==
    [ kind           |-> "tfvars_azure",
      azure_location |-> cfg.azure_location,
      n8n_host       |-> cfg.n8n_host,
      database_type  |-> cfg.database_type,
      postgres_block |-> cfg.database_type = "postgresql" ]

(***************************************************************************)
(* The FileUpdater driven call by call                                     *)
(***************************************************************************)
InitVariablesTf ==
    { [kind |-> "variables", region |-> "r0", n8n_host |-> "h0"],
      [kind |-> "variables", region |-> "r0", n8n_host |-> "none"] }

InitValuesYaml == { [kind |-> "values", host |-> "h0"],
                    [kind |-> "values", host |-> "none"] }

InitTfvars ==
    {NoFile} \cup {create_terraform_tfvars(c) : c \in Configs}

InitFiles ==
    { [f \in FileNames |->
         CASE f = "variables.tf"     -> v
           [] f = "main.tf"          -> Text("tf0")
           [] f = "terraform.tfvars" -> t
           [] f = "values.yaml"      -> y
           [] f = "Chart.yaml"       -> Text("chart0")
           [] OTHER                  -> NoFile] :
      v \in InitVariablesTf, y \in InitValuesYaml, t \in InitTfvars }

NoFuCall == [op |-> "none", raised |-> FALSE]

\* AWSDeploymentConfig() / AzureDeploymentConfig() before the prompts
EmptyConfig == [n8n_host |-> ""]

\* Nothing has happened yet in the run.
\*   mode:        the flow of main chosen by the command line
\*   kubectl:     the cluster-credential command: "none", "ok", "failed"
\*   poll:        what the endpoint poll returned
\*   handled:     the FileUpdater calls of main's exit paths, in order
\*   caught:      an exception raised after the configuration apply was
\*                caught inside the function it was raised in
\*   interrupted: the operator interrupted a prompt of the collection
\*   faults:      a tool failed, or the operator cancelled or interrupted
\*   prompts:     the hardening prompts shown
\*   optins:      the hardening steps the operator asked for
\*   restore:     the key given with --restore-region; "" without the switch
\*   restored:    restore_state_for_region changed terraform.tfstate or the
\*                backups of the terraform directory
\*   unmet:       load_existing_configuration raised: no terraform.tfvars of
\*                an earlier run to go on from
\*   hardening:   the hardening steps gone into and how each went, in order
NoHist ==
    [ mode |-> "none", kubectl |-> "none", poll |-> "none", handled |-> <<>>, caught |-> FALSE,
      interrupted |-> FALSE, faults |-> FALSE, prompts |-> {}, optins |-> {},
      restore |-> "", restored |-> FALSE, unmet |-> FALSE, hardening |-> <<>>,
      child |-> "none", sigint |-> "none" ]

\* get_loadbalancer_url has not been called on its own.
NoPoll == [called |-> FALSE]

\* No teardown is under way.
\*   pc:        the statement of the teardown the run is at
\*   cloud:     cloud_provider
\*   cluster:   what `kubectl cluster-info` does: "reachable", "unreachable"
\*              (non-zero return), "raises"
\*   state:     terraform.tfstate (AWS) / the terraform directory (Azure)
\*              exists
\*   left:      seconds of the countdown still to run
\*   confirmed: the operator answered yes to the confirmation (history)
\*   counted:   the countdown ran to its end (history)
\*   started:   the phases started, in order (history)
\*   results:   what the phases returned, in order
\*   cmds:      the uninstall, delete and destroy commands run (history)
\*   exc:       the exception raised to main's handlers
\*   exit_code: sys.exit status; -1 while running
\*   log:       the commands of phases 3 and 4, in the order they were run
\*   protected: `describe-db-instances` answered that deletion protection
\*              is on (history)
\*   listed:    the secrets shown to the operator in phase 4 (history)
\*   answer:    what the operator answered when asked whether to delete
\*              the secrets; "none" when not asked (history)
\*   agreed:    the answer was taken for a yes (history)
\*   deleted:   the secrets deleted (history)
\*   restore:   the key given with --restore-region; "" without the switch
\*   restored:  "none", or what restore_state_for_region returned: "true",
\*              "false"
\*   live0:     terraform.tfstate at the start of the run (history)
\*   destroyed: the terraform.tfstate `terraform destroy` was run on;
\*              "none" before (history)
NoTeardown ==
    [ pc |-> "idle", cloud |-> "aws", cluster |-> "reachable", state |-> FALSE, left |-> 0,
      confirmed |-> FALSE, counted |-> FALSE, started |-> <<>>, results |-> <<>>,
      cmds |-> {}, exc |-> "none", exit_code |-> -1,
      log |-> <<>>, protected |-> FALSE, listed |-> {}, answer |-> "none",
      agreed |-> FALSE, deleted |-> {},
      restore |-> "", restored |-> "none", live0 |-> "absent", destroyed |-> "none" ]

TeardownIdle == teardown = NoTeardown

\* validate_certificate_chain has not been called on its own.
NoValidation == [called |-> FALSE]

CertIdle ==
    /\ cert_in = NoValidation
    /\ cert_out = NoValidation

\* No configuration of a run is being put together on its own.
NoSetup == [pc |-> "idle"]

\* configure_tls_interactive is not being followed on its own.
NoByo == [pc |-> "idle"]

ExtIdle ==
    /\ setup = NoSetup
    /\ byo = NoByo

PollIdle ==
    /\ poll_in = NoPoll
    /\ poll_out = NoPoll

\* main() is not running.
NoRun ==
    /\ pc = "idle"
    /\ cloud = "aws"
    /\ deploy_config = EmptyConfig
    /\ updater = FALSE
    /\ tfdir = "none"
    /\ cred = "none"
    /\ tfdone = {}
    /\ phases = <<>>
    /\ invoked = {}
    /\ outputs = {}
    /\ lb_url = ""
    /\ exc = "none"
    /\ exit_code = -1
    /\ hist = NoHist

\* No deployment run is under way.
MainIdle ==
    /\ pc = "idle"
    /\ cloud = "aws"
    /\ deploy_config = EmptyConfig
    /\ updater = FALSE
    /\ tfdir = "none"
    /\ cred = "none"
    /\ tfdone = {}
    /\ phases = <<>>
    /\ invoked = {}
    /\ outputs = {}
    /\ lb_url = ""
    /\ exc = "none"
    /\ exit_code = -1
    /\ hist = NoHist
    /\ PollIdle
    /\ TeardownIdle
    /\ CertIdle
    /\ ExtIdle

StoreIdle ==
    /\ tfstate = [d \in Dirs |-> "absent"]
    /\ backups = [d \in Dirs |-> [n \in BackupNames |-> "absent"]]
    /\ now = 1
    /\ call = [op |-> "none", key |-> "", ret |-> FALSE, raised |-> FALSE, seq |-> 0]
    /\ preserved = {}

InitFU ==
    /\ files \in InitFiles
    /\ backup_dir = 0
    /\ tmpdirs = [i \in 1..MaxBackupDirs |-> FreeDir]
    /\ fuCall = NoFuCall
    /\ preApply = files
    /\ nfu = 0
    /\ StoreIdle
    /\ MainIdle

CanMkdtemp == \E i \in 1..MaxBackupDirs : tmpdirs[i] = FreeDir

\* updater.create_backup()
CreateBackup ==
    /\ nfu < MaxFuCalls
    /\ CanMkdtemp
    /\ LET b == create_backup(files, tmpdirs)
       IN  /\ backup_dir' = b.backup_dir
           /\ tmpdirs' = b.tmpdirs
    /\ fuCall' = [op |-> "create_backup", raised |-> FALSE]
    /\ nfu' = nfu + 1
    /\ UNCHANGED <<files, preApply>>
    /\ UNCHANGED <<storeVars, mainVars, pollVars, teardown, certVars, extVars>>

\* updater.apply_configuration(config)
ApplyConfiguration ==
    /\ nfu < MaxFuCalls
    /\ CanMkdtemp
    /\ \E config \in Configs, fail \in Failures :
         LET r == apply_configuration(files, tmpdirs, config, fail)
         IN  /\ files' = r.files
             /\ backup_dir' = r.backup_dir
             /\ tmpdirs' = r.tmpdirs
             /\ fuCall' = [op |-> "apply", raised |-> r.raised]
    /\ preApply' = files
    /\ nfu' = nfu + 1
    /\ UNCHANGED <<storeVars, mainVars, pollVars, teardown, certVars, extVars>>

\* updater.restore_backup()
RestoreBackup ==
    /\ nfu < MaxFuCalls
    /\ files' = restore_backup(files, backup_dir, tmpdirs)
    /\ fuCall' = [op |-> "restore", raised |-> FALSE]
    /\ nfu' = nfu + 1
    /\ UNCHANGED <<backup_dir, tmpdirs, preApply>>
    /\ UNCHANGED <<storeVars, mainVars, pollVars, teardown, certVars, extVars>>

\* updater.cleanup_backup()
CleanupBackup ==
    /\ nfu < MaxFuCalls
    /\ tmpdirs' = cleanup_backup(backup_dir, tmpdirs)
    /\ fuCall' = [op |-> "cleanup", raised |-> FALSE]
    /\ nfu' = nfu + 1
    /\ UNCHANGED <<files, backup_dir, preApply>>
    /\ UNCHANGED <<storeVars, mainVars, pollVars, teardown, certVars, extVars>>

\* updater.create_terraform_tfvars_azure(config): the Azure path writes its
\* tfvars with no create_backup before it
CreateTerraformTfvarsAzure ==
    /\ nfu < MaxFuCalls
    /\ \E cfg \in AzureConfigs, io \in WriteOutcomes :
         /\ files' = [files EXCEPT !["azure/terraform.tfvars"] =
                        write_text(create_terraform_tfvars_azure(cfg), @, io)]
         /\ fuCall' = [op |-> "tfvars_azure", raised |-> io # "ok"]
    /\ nfu' = nfu + 1
    /\ UNCHANGED <<backup_dir, tmpdirs, preApply>>
    /\ UNCHANGED <<storeVars, mainVars, pollVars, teardown, certVars, extVars>>

NextFU ==
    \/ CreateBackup
    \/ ApplyConfiguration
    \/ CreateTerraformTfvarsAzure
    \/ RestoreBackup
    \/ CleanupBackup

SpecFU == InitFU /\ [][NextFU]_vars

(***************************************************************************)
(* The state store driven call by call on one directory                    *)
(***************************************************************************)
StoreDir == "aws"

FuIdle ==
    /\ files = CHOOSE f \in InitFiles : TRUE
    /\ backup_dir = 0
    /\ tmpdirs = [i \in 1..MaxBackupDirs |-> FreeDir]
    /\ fuCall = NoFuCall
    /\ preApply = files
    /\ nfu = 0

\* seq flips at every call, so that a call repeated with the same result
\* is still a step.
\* raised: a copy of the call raised (the save's copy, the restore's copy
\* over the live state).
NoCall == [op |-> "none", key |-> "", ret |-> FALSE, raised |-> FALSE, seq |-> 0]

NoBackups == [n \in BackupNames |-> "absent"]

\* The keys the calls of this behaviour are made with: a region name, and a
\* key of digits only.
StoreKeys == {"r1", "1"}

\* Snapshots exist only under region keys at the start (timestamp backups
\* are made by the calls of the behaviour) and hold resource-bearing states.
InitBackups ==
    { [n \in BackupNames |->
          IF \E k \in StoreKeys : n = BackupName(k)
            THEN f[CHOOSE k \in StoreKeys : n = BackupName(k)]
            ELSE "absent"] :
      f \in [StoreKeys -> ResourceStates \cup {"absent"}] }

InitStore ==
    /\ \E c \in Content : tfstate = [d \in Dirs |-> IF d = StoreDir THEN c ELSE "absent"]
    /\ \E b \in InitBackups : backups = [d \in Dirs |-> IF d = StoreDir THEN b ELSE NoBackups]
    /\ now = 1
    /\ call = NoCall
    /\ preserved = {}
    /\ FuIdle
    /\ MainIdle

\* One call of save_state_for_region(StoreDir, k).
SnapshotForKey ==
    \E k \in StoreKeys, io \in CopyOutcomes :
        LET r == save_state_for_region(tfstate[StoreDir], backups[StoreDir], k, io)
        IN  /\ backups' = [backups EXCEPT ![StoreDir] = r.backups]
            /\ call' = [ op |-> "save", key |-> k, ret |-> r.ret,
                         raised |-> HasResources(tfstate[StoreDir]) /\ Raises(io),
                         seq |-> 1 - call.seq ]
            /\ UNCHANGED <<tfstate, now, preserved>>
            /\ UNCHANGED <<fuVars, mainVars, pollVars, teardown, certVars, extVars>>

\* One call of restore_state_for_region(StoreDir, k).
RestoreForKey ==
    \E k \in StoreKeys, io1 \in CopyOutcomes, io2 \in CopyOutcomes :
        LET live == tfstate[StoreDir]
            r == restore_state_for_region(live, backups[StoreDir], k, now, io1, io2)
            copied == /\ backups[StoreDir][BackupName(k)] # "absent"
                      /\ HasResources(live)
                      /\ r.backups[BackupName(TsKey(now))] = live
                      /\ r.tfstate # live
        IN  /\ tfstate' = [tfstate EXCEPT ![StoreDir] = r.tfstate]
            /\ backups' = [backups EXCEPT ![StoreDir] = r.backups]
            /\ call' = [ op |-> "restore", key |-> k, ret |-> r.ret,
                         raised |-> backups[StoreDir][BackupName(k)] # "absent" /\ Raises(io2),
                         seq |-> 1 - call.seq ]
            /\ preserved' = IF copied THEN preserved \cup {live} ELSE preserved
            /\ UNCHANGED now
            /\ UNCHANGED <<fuVars, mainVars, pollVars, teardown, certVars, extVars>>

\* A second passes on the clock.
Tick ==
    /\ now < MaxTime
    /\ now' = now + 1
    /\ UNCHANGED <<tfstate, backups, call, preserved>>
    /\ UNCHANGED <<fuVars, mainVars, pollVars, teardown, certVars, extVars>>

NextStore == SnapshotForKey \/ RestoreForKey \/ Tick

SpecStore == InitStore /\ [][NextStore]_vars

(***************************************************************************)
(* ConfigHistoryManager.save_configuration                                 *)
(***************************************************************************)
\* The entries a history file read back holds.
HistoryEntries(content) ==
    CASE content.kind = "history" -> content.entries
      [] content.kind = "absent"  -> <<>>
      [] OTHER                    -> <<[truncated |-> TRUE]>>

\* .setup-current.json and setup_history.log after save_configuration; a
\* failed write is reported as a warning and the run goes on.
save_configuration(fs, cfg, cloud_provider, io1, io2) ==
    LET entry == [cloud_provider |-> cloud_provider, configuration |-> cfg]
        cur   == [kind |-> "current", cloud_provider |-> cloud_provider,
                  configuration |-> cfg]
        log   == [kind |-> "history",
                  entries |-> <<entry>> \o HistoryEntries(fs["setup_history.log"])]
    IN  [fs EXCEPT ![".setup-current.json"] = write_text(cur, @, io1),
                   !["setup_history.log"]   = write_text(log, @, io2)]

(***************************************************************************)
(* The state saved before terraform apply (main and                        *)
(* deploy_azure_terraform)                                                 *)
(***************************************************************************)
\* The region or location the cluster resource of a state records: the ARN's
\* region of aws_eks_cluster, the location of azurerm_kubernetes_cluster;
\* "" when the state holds no such resource.
ClusterRegion == [c \in ResourceStates |-> IF c = "A" THEN "r1" ELSE ""]

\* "Save current state before applying": the backups afterwards. Every
\* exception is caught and reported as a warning.
pre_apply_snapshot(live, bk, t, io) ==
    IF live = "absent" \/ ~HasResources(live) THEN bk
    ELSE IF ClusterRegion[live] # ""
      THEN save_state_for_region(live, bk, ClusterRegion[live], io).backups
    ELSE [bk EXCEPT ![BackupName(TsKey(t))] = copy2(live, @, io)]

(***************************************************************************)
(* get_loadbalancer_url(max_attempts, delay)                               *)
(*   probes[k]: what the two kubectl calls of attempt k answer: an         *)
(*   address, "" (nothing yet, or a non-zero exit), or an exception        *)
(***************************************************************************)
\* `return None`
None == "None"

\* subprocess.TimeoutExpired, and SetupInterrupted raised by the SIGINT
\* handler while the call waits
ProbeRaises == {"timeout", "interrupt"}

Probe(what, k) == [ev |-> "probe", what |-> what, attempt |-> k]

Sleep(d, k) == [ev |-> "sleep", seconds |-> d, attempt |-> k]

\* `if attempt < max_attempts: time.sleep(delay)`
SleepIfNotLast(k, max_attempts, d) ==
    IF k < max_attempts THEN <<Sleep(d, k)>> ELSE <<>>

\* as SleepIfNotLast, sleeping after the last attempt too
SleepAlways(k, max_attempts, d) == <<Sleep(d, k)>>

\* as get_loadbalancer_url, sleeping after every attempt that found nothing
RECURSIVE poll_sleep_always(_, _, _, _, _)
poll_sleep_always(k, max_attempts, d, probes, log) ==
    IF k > max_attempts THEN [result |-> None, log |-> log]
    ELSE LET p    == probes[k]
             logh == Append(log, Probe("hostname", k))
             logi == Append(logh, Probe("ip", k))
         IN  IF p.hostname \in ProbeRaises
               THEN poll_sleep_always(k + 1, max_attempts, d, probes,
                                      logh \o SleepAlways(k, max_attempts, d))
             ELSE IF p.hostname # ""
               THEN [result |-> p.hostname, log |-> logh]
             ELSE IF p.ip \in ProbeRaises
               THEN poll_sleep_always(k + 1, max_attempts, d, probes,
                                      logi \o SleepAlways(k, max_attempts, d))
             ELSE IF p.ip # ""
               THEN [result |-> p.ip, log |-> logi]
             ELSE poll_sleep_always(k + 1, max_attempts, d, probes,
                                    logi \o SleepAlways(k, max_attempts, d))

get_loadbalancer_url_sleep_always(max_attempts, d, probes) ==
    poll_sleep_always(1, max_attempts, d, probes, <<>>)

\* as get_loadbalancer_url, asking for the IP first
RECURSIVE poll_ip_first(_, _, _, _, _)
poll_ip_first(k, max_attempts, d, probes, log) ==
    IF k > max_attempts THEN [result |-> None, log |-> log]
    ELSE LET p    == probes[k]
             logi == Append(log, Probe("ip", k))
             logh == Append(logi, Probe("hostname", k))
         IN  IF p.ip \in ProbeRaises
               THEN poll_ip_first(k + 1, max_attempts, d, probes,
                                  logi \o SleepIfNotLast(k, max_attempts, d))
             ELSE IF p.ip # ""
               THEN [result |-> p.ip, log |-> logi]
             ELSE IF p.hostname \in ProbeRaises
               THEN poll_ip_first(k + 1, max_attempts, d, probes,
                                  logh \o SleepIfNotLast(k, max_attempts, d))
             ELSE IF p.hostname # ""
               THEN [result |-> p.hostname, log |-> logh]
             ELSE poll_ip_first(k + 1, max_attempts, d, probes,
                                logh \o SleepIfNotLast(k, max_attempts, d))

get_loadbalancer_url_ip_first(max_attempts, d, probes) ==
    poll_ip_first(1, max_attempts, d, probes, <<>>)

\* `for attempt in range(1, max_attempts + 1)` from attempt k on: the
\* hostname is asked for first and returned if there is one, then the IP;
\* an exception of either call is caught, and the loop goes on
RECURSIVE poll_from(_, _, _, _, _)
poll_from(k, max_attempts, d, probes, log) ==
    IF k > max_attempts THEN [result |-> None, log |-> log]
    ELSE LET p    == probes[k]
             logh == Append(log, Probe("hostname", k))
             logi == Append(logh, Probe("ip", k))
         IN  IF p.hostname \in ProbeRaises
               THEN poll_from(k + 1, max_attempts, d, probes,
                              logh \o SleepIfNotLast(k, max_attempts, d))
             ELSE IF p.hostname # ""
               THEN [result |-> p.hostname, log |-> logh]
             ELSE IF p.ip \in ProbeRaises
               THEN poll_from(k + 1, max_attempts, d, probes,
                              logi \o SleepIfNotLast(k, max_attempts, d))
             ELSE IF p.ip # ""
               THEN [result |-> p.ip, log |-> logi]
             ELSE poll_from(k + 1, max_attempts, d, probes,
                            logi \o SleepIfNotLast(k, max_attempts, d))

\* get_loadbalancer_url: the value returned and what was done, in order
get_loadbalancer_url(max_attempts, d, probes) ==
    poll_from(1, max_attempts, d, probes, <<>>)

(***************************************************************************)
(* get_loadbalancer_url called on its own                                  *)
(***************************************************************************)
HostnameAnswers == {"", "elb.example", "timeout"}

IpAnswers == {"", "10.0.0.1", "timeout"}

AttemptAnswers == [hostname : HostnameAnswers, ip : IpAnswers]

Delays == {0, 10}

InitPoll ==
    /\ \E n \in 0..MaxAttempts, d \in Delays,
          probes \in [1..MaxAttempts -> AttemptAnswers] :
          poll_in = [called |-> FALSE, max_attempts |-> n, delay |-> d,
                     probes |-> probes]
    /\ poll_out = NoPoll
    /\ StoreIdle
    /\ FuIdle
    /\ pc = "idle"
    /\ cloud = "aws"
    /\ deploy_config = EmptyConfig
    /\ updater = FALSE
    /\ tfdir = "none"
    /\ cred = "none"
    /\ tfdone = {}
    /\ phases = <<>>
    /\ invoked = {}
    /\ outputs = {}
    /\ lb_url = ""
    /\ exc = "none"
    /\ exit_code = -1
    /\ hist = NoHist
    /\ TeardownIdle
    /\ CertIdle
    /\ ExtIdle

\* One call of get_loadbalancer_url(max_attempts, delay)
Poll ==
    /\ ~poll_in.called
    /\ poll_in' = [poll_in EXCEPT !.called = TRUE]
    /\ LET r == get_loadbalancer_url(poll_in.max_attempts, poll_in.delay,
                                     poll_in.probes)
       IN  poll_out' = [called |-> TRUE, result |-> r.result, log |-> r.log]
    /\ UNCHANGED <<storeVars, fuVars, mainVars, teardown, certVars, extVars>>

NextPoll == Poll

SpecPoll == InitPoll /\ [][NextPoll]_vars

(***************************************************************************)
(* main(): a deployment run                                                *)
(***************************************************************************)
\* The outputs of `terraform output -json` the run reads; {} also when the
\* command fails.
OutputSets == SUBSET {"configure_kubectl", "n8n_encryption_key_value"}

PhaseOrder == << "CredentialsVerified", "ConfigCollected", "ConfigApplied",
                 "InfraApplied", "ClusterConfigured", "AppDeployed",
                 "EndpointDiscovered", "SecurityHardened", "Done" >>

Rank(ph) == CHOOSE i \in 1..Len(PhaseOrder) : PhaseOrder[i] = ph

Reached(ph) == \E i \in 1..Len(phases) : phases[i] = ph

\* raise: control passes to the except clauses of main
Raise(kind) ==
    /\ exc' = kind
    /\ pc' = "handler"

\* sys.exit(code)
Exit(code) ==
    /\ pc' = "exited"
    /\ exit_code' = code

\* The flows of main modelled: the full deployment, --skip-terraform and
\* --configure-tls
Modes == {"full", "skip_terraform", "configure_tls"}

\* terraform/{cloud_provider}/terraform.tfvars
TfvarsOf(cloud_provider) ==
    IF cloud_provider = "aws" THEN "terraform.tfvars" ELSE "azure/terraform.tfvars"

\* load_existing_configuration: raises without the file or without an
\* n8n_host in it; 'region' is read if there is one, the database type is
\* not read
load_existing_configuration(fs, cloud_provider) ==
    LET f == fs[TfvarsOf(cloud_provider)]
    IN  IF f = NoFile \/ "n8n_host" \notin DOMAIN f
          THEN [raised |-> TRUE, config |-> EmptyConfig]
        ELSE IF f.n8n_host = ""
          THEN [raised |-> TRUE, config |-> EmptyConfig]
        ELSE [raised |-> FALSE,
              config |-> [aws_region    |-> IF "region" \in DOMAIN f
                                              THEN f.region ELSE "",
                          n8n_host      |-> f.n8n_host,
                          database_type |-> "sqlite"]]

\* The configuration tree a run starts from; a terraform.tfvars of an
\* earlier run is there or not when the run is one that loads it
InitMainFiles(mode, cloud_provider) ==
    IF mode = "full"
      THEN {f \in InitFiles : f["terraform.tfvars"] = NoFile}
      ELSE LET base == CHOOSE f \in InitFiles : f["terraform.tfvars"] = NoFile
               old  == IF cloud_provider = "aws"
                         THEN create_terraform_tfvars(CHOOSE c \in Configs : TRUE)
                         ELSE create_terraform_tfvars_azure(
                                  CHOOSE c \in AzureConfigs : TRUE)
           IN  {base, [base EXCEPT ![TfvarsOf(cloud_provider)] = old]}

\* The key a run with --restore-region names
RestoreKey == "r1"

InitMain ==
    /\ pc = "start"
    /\ cloud \in {"aws", "azure"}
    /\ \E mode \in Modes, key \in {"", RestoreKey} :
          /\ hist = [NoHist EXCEPT !.mode = mode, !.restore = key]
          /\ files \in InitMainFiles(mode, cloud)
          /\ \E b \in {"absent", "B"} :
                /\ key = "" => b = "absent"
                /\ backups = [d \in Dirs |->
                                IF d = cloud
                                  THEN [NoBackups EXCEPT ![BackupName(RestoreKey)] = b]
                                  ELSE NoBackups]
    /\ deploy_config = EmptyConfig
    /\ updater = FALSE
    /\ tfdir = "none"
    /\ cred = "none"
    /\ tfdone = {}
    /\ phases = <<>>
    /\ invoked = {}
    /\ outputs = {}
    /\ lb_url = ""
    /\ exc = "none"
    /\ exit_code = -1
    /\ \E a \in Content, z \in Content :
          /\ tfstate = [d \in Dirs |-> IF d = "aws" THEN a ELSE z]
          /\ cloud = "aws" => z = "absent"
          /\ cloud = "azure" => a \in {"absent", "A"}
    /\ now = 1
    /\ call = NoCall
    /\ preserved = {}
    /\ backup_dir = 0
    /\ tmpdirs = [i \in 1..MaxBackupDirs |-> FreeDir]
    /\ fuCall = NoFuCall
    /\ preApply = files
    /\ nfu = 0
    /\ PollIdle
    /\ TeardownIdle
    /\ CertIdle
    /\ ExtIdle

storeGhost == <<call, preserved>>

fuGhost == <<fuCall, preApply, nfu>>

\* hist with a fault noted: a tool failed, or the operator cancelled
Fault(h, b) == [h EXCEPT !.faults = @ \/ b]

\* DependencyChecker.check_all_dependencies; sys.exit(1) when one is missing
CheckDependencies ==
    /\ pc = "start"
    /\ \E deps_ok \in BOOLEAN :
         /\ hist' = Fault(hist, ~deps_ok)
         /\ IF deps_ok
              THEN /\ pc' = IF hist.restore # "" THEN "restore"
                            ELSE IF hist.mode = "full" THEN "credentials" ELSE "load"
                   /\ exit_code' = exit_code
              ELSE Exit(1)
    /\ UNCHANGED <<cloud, deploy_config, updater, tfdir, cred, tfdone, phases, invoked,
                   outputs, lb_url, exc>>
    /\ UNCHANGED <<tfstate, backups, now, files, backup_dir, tmpdirs>>
    /\ UNCHANGED <<storeGhost, fuGhost, pollVars, teardown, certVars, extVars>>

\* --restore-region: restore_state_for_region on the terraform directory of
\* the cloud provider; sys.exit(1) when it returns False, sys.exit(0) when
\* no other switch was given, and on to the other switch otherwise
RestoreRegion ==
    /\ pc = "restore"
    /\ \E io1 \in CopyOutcomes, io2 \in CopyOutcomes :
         LET r == restore_state_for_region(tfstate[cloud], backups[cloud],
                                           hist.restore, now, io1, io2)
         IN  /\ tfstate' = [tfstate EXCEPT ![cloud] = r.tfstate]
             /\ backups' = [backups EXCEPT ![cloud] = r.backups]
             /\ hist' = [hist EXCEPT
                            !.faults = @ \/ ~r.ret,
                            !.restored = r.tfstate # tfstate[cloud]
                                           \/ r.backups # backups[cloud]]
             /\ IF ~r.ret THEN Exit(1)
                ELSE IF hist.mode = "full" THEN Exit(0)
                ELSE pc' = "load" /\ exit_code' = exit_code
    /\ UNCHANGED <<cloud, deploy_config, updater, tfdir, cred, tfdone, phases, invoked,
                   outputs, lb_url, exc>>
    /\ UNCHANGED <<now, files, backup_dir, tmpdirs>>
    /\ UNCHANGED <<storeGhost, fuGhost, pollVars, teardown, certVars, extVars>>

\* --configure-tls and --skip-terraform: load_existing_configuration, with
\* sys.exit(1) when it raises
LoadExisting ==
    /\ pc = "load"
    /\ LET r == load_existing_configuration(files, cloud)
       IN  /\ hist' = [hist EXCEPT !.faults = @ \/ r.raised, !.unmet = r.raised]
           /\ IF r.raised
                THEN Exit(1) /\ deploy_config' = deploy_config
                ELSE /\ deploy_config' = r.config
                     /\ pc' = IF hist.mode = "configure_tls" THEN "ct_kubectl"
                                                             ELSE "st_outputs"
                     /\ exit_code' = exit_code
    /\ UNCHANGED <<cloud, updater, tfdir, cred, tfdone, phases, invoked,
                   outputs, lb_url, exc>>
    /\ UNCHANGED <<tfstate, backups, now, files, backup_dir, tmpdirs>>
    /\ UNCHANGED <<storeGhost, fuGhost, pollVars, teardown, certVars, extVars>>

\* collect_configuration up to AWSAuthChecker.verify_credentials, and
\* collect_azure_configuration up to the subscription id.
\*   answer: the operator answers the prompts, interrupts one, or
\*   interrupts one and the next one too.
\* AWS: a failed check raises SetupInterrupted. Azure: when `az account
\* show` fails the subscription id is asked for inside the try whose bare
\* except asks for it again, and the run goes on with the answer.
VerifyCredentials ==
    /\ pc = "credentials"
    /\ \E answer \in {"answered", "interrupt", "interrupt_twice"},
          success \in BOOLEAN :
         /\ LET asked == cloud = "aws" \/ ~success
            IN  hist' = [hist EXCEPT
                           !.faults = @ \/ ~success \/ (asked /\ answer # "answered"),
                           !.interrupted = @ \/ (asked /\ answer # "answered")]
         /\ IF cloud = "aws"
              THEN IF answer # "answered"
                     THEN Raise("SetupInterrupted") /\ UNCHANGED <<cred, phases>>
                   ELSE IF success
                     THEN /\ cred' = "ok"
                          /\ phases' = Append(phases, "CredentialsVerified")
                          /\ pc' = "collect"
                          /\ exc' = exc
                   ELSE /\ cred' = "failed"
                        /\ phases' = phases
                        /\ Raise("SetupInterrupted")
              ELSE IF success
                     THEN /\ cred' = "ok"
                          /\ phases' = Append(phases, "CredentialsVerified")
                          /\ pc' = "collect"
                          /\ exc' = exc
                   ELSE IF answer = "interrupt_twice"
                     THEN cred' = "failed" /\ phases' = phases /\ Raise("SetupInterrupted")
                   ELSE /\ cred' = "failed"
                        /\ phases' = phases
                        /\ pc' = "collect"
                        /\ exc' = exc
    /\ UNCHANGED <<cloud, deploy_config, updater, tfdir, tfdone, invoked, outputs, lb_url,
                   exit_code>>
    /\ UNCHANGED <<tfstate, backups, now, files, backup_dir, tmpdirs>>
    /\ UNCHANGED <<storeGhost, fuGhost, pollVars, teardown, certVars, extVars>>

\* The prompts after the credential step, the summary and its confirmation
CollectConfiguration ==
    /\ pc = "collect"
    /\ \E answer \in {"confirmed", "declined", "interrupt"} :
         /\ hist' = [hist EXCEPT !.faults = @ \/ answer # "confirmed",
                                 !.interrupted = @ \/ answer = "interrupt"]
         /\ IF answer = "confirmed"
              THEN /\ deploy_config' \in (IF cloud = "aws" THEN Configs ELSE AzureConfigs)
                   /\ phases' = Append(phases, "ConfigCollected")
                   /\ pc' = "history"
                   /\ exc' = exc
              ELSE /\ Raise("SetupInterrupted")
                   /\ UNCHANGED <<deploy_config, phases>>
    /\ UNCHANGED <<cloud, updater, tfdir, cred, tfdone, invoked, outputs, lb_url,
                   exit_code>>
    /\ UNCHANGED <<tfstate, backups, now, files, backup_dir, tmpdirs>>
    /\ UNCHANGED <<storeGhost, fuGhost, pollVars, teardown, certVars, extVars>>

\* ConfigHistoryManager.save_configuration(config, cloud_provider, script_dir)
SaveHistory ==
    /\ pc = "history"
    /\ \E io \in WriteOutcomes :
         /\ files' = save_configuration(files, deploy_config, cloud, io, io)
         /\ hist' = Fault(hist, io # "ok")
    /\ pc' = "apply_config"
    /\ UNCHANGED <<cloud, deploy_config, updater, tfdir, cred, tfdone, phases, invoked,
                   outputs, lb_url, exc, exit_code>>
    /\ UNCHANGED <<tfstate, backups, now, backup_dir, tmpdirs>>
    /\ UNCHANGED <<storeGhost, fuGhost, pollVars, teardown, certVars, extVars>>

\* AWS: updater.apply_configuration(config), then PHASE 1 of main.
\* Azure: updater.create_terraform_tfvars_azure(config), then
\* deploy_azure_terraform.
ApplyConfig ==
    /\ pc = "apply_config"
    /\ updater' = TRUE
    /\ IF cloud = "aws"
         THEN \E fail \in Failures :
                LET r == apply_configuration(files, tmpdirs, deploy_config, fail)
                IN  /\ files' = r.files
                    /\ backup_dir' = r.backup_dir
                    /\ tmpdirs' = r.tmpdirs
                    /\ hist' = Fault(hist, r.raised)
                    /\ IF r.raised
                         THEN Raise("Exception") /\ UNCHANGED <<phases, tfdir>>
                         ELSE /\ phases' = Append(phases, "ConfigApplied")
                              /\ tfdir' = "aws"
                              /\ pc' = "tf_init"
                              /\ exc' = exc
         ELSE \E io \in WriteOutcomes :
                /\ files' = [files EXCEPT !["azure/terraform.tfvars"] =
                               write_text(create_terraform_tfvars_azure(deploy_config), @, io)]
                /\ UNCHANGED <<backup_dir, tmpdirs>>
                /\ hist' = Fault(hist, io # "ok")
                /\ IF io # "ok"
                     THEN Raise("Exception") /\ UNCHANGED <<phases, tfdir>>
                     ELSE /\ phases' = Append(phases, "ConfigApplied")
                          /\ tfdir' = "azure"
                          /\ pc' = "tf_init"
                          /\ exc' = exc
    /\ tfdone' = {}
    /\ UNCHANGED <<cloud, deploy_config, cred, invoked, outputs, lb_url, exit_code>>
    /\ UNCHANGED <<tfstate, backups, now>>
    /\ UNCHANGED <<storeGhost, fuGhost, pollVars, teardown, certVars, extVars>>

\* The commands run so far, each with the directory it was run in
Ran(dir, cmd) == invoked \cup {[dir |-> dir, cmd |-> cmd]}

\* tf_runner.init(); False makes deploy_azure_terraform return False, which
\* main raises on, and makes main raise in its own block
TfInit ==
    /\ pc = "tf_init"
    /\ invoked' = Ran(tfdir, "init")
    /\ \E success \in BOOLEAN :
         /\ hist' = Fault(hist, ~success)
         /\ IF success
              THEN tfdone' = {"init"} /\ pc' = "tf_plan" /\ exc' = exc
              ELSE tfdone' = tfdone /\ Raise("Exception")
    /\ UNCHANGED <<cloud, deploy_config, updater, tfdir, cred, phases, outputs, lb_url,
                   exit_code>>
    /\ UNCHANGED <<tfstate, backups, now, files, backup_dir, tmpdirs>>
    /\ UNCHANGED <<storeGhost, fuGhost, pollVars, teardown, certVars, extVars>>

\* tf_runner.plan(); main's block asks for a confirmation next,
\* deploy_azure_terraform does not
TfPlan ==
    /\ pc = "tf_plan"
    /\ invoked' = Ran(tfdir, "plan")
    /\ \E success \in BOOLEAN :
         /\ hist' = Fault(hist, ~success)
         /\ IF success
              THEN /\ tfdone' = tfdone \cup {"plan"}
                   /\ pc' = IF tfdir = "azure" THEN "pre_snapshot" ELSE "confirm"
                   /\ exc' = exc
              ELSE tfdone' = tfdone /\ Raise("Exception")
    /\ UNCHANGED <<cloud, deploy_config, updater, tfdir, cred, phases, outputs, lb_url,
                   exit_code>>
    /\ UNCHANGED <<tfstate, backups, now, files, backup_dir, tmpdirs>>
    /\ UNCHANGED <<storeGhost, fuGhost, pollVars, teardown, certVars, extVars>>

\* prompt_yes_no("Proceed with Terraform apply?")
ConfirmApply ==
    /\ pc = "confirm"
    /\ \E answer \in {"yes", "no", "interrupt"} :
         /\ hist' = Fault(hist, answer # "yes")
         /\ IF answer = "yes" THEN pc' = "pre_snapshot" /\ exc' = exc
                              ELSE Raise("SetupInterrupted")
    /\ UNCHANGED <<cloud, deploy_config, updater, tfdir, cred, tfdone, phases, invoked,
                   outputs, lb_url, exit_code>>
    /\ UNCHANGED <<tfstate, backups, now, files, backup_dir, tmpdirs>>
    /\ UNCHANGED <<storeGhost, fuGhost, pollVars, teardown, certVars, extVars>>

\* "Saving current state before deployment..."
PreApplySnapshot ==
    /\ pc = "pre_snapshot"
    /\ \E io \in CopyOutcomes :
         /\ backups' = [backups EXCEPT ![tfdir] =
                           pre_apply_snapshot(tfstate[tfdir], @, now, io)]
         /\ hist' = Fault(hist, io # "ok")
    /\ pc' = "tf_apply"
    /\ UNCHANGED <<cloud, deploy_config, updater, tfdir, cred, tfdone, phases, invoked,
                   outputs, lb_url, exc, exit_code>>
    /\ UNCHANGED <<tfstate, now, files, backup_dir, tmpdirs>>
    /\ UNCHANGED <<storeGhost, fuGhost, pollVars, teardown, certVars, extVars>>

\* ConfigurationPrompt._handle_interrupt, which every ConfigurationPrompt()
\* installs for SIGINT with signal.signal and none uninstalls: it raises in
\* the main thread, whatever that is blocked in
handle_interrupt == "SetupInterrupted"

\* What a call of `terraform apply` meets: the command returns 0, returns
\* non-zero, cannot be started (OSError), or SIGINT arrives while
\* subprocess.run waits for it
ApplyOutcomes == {"ok", "fail", "oserror", "sigint"}

\* TerraformRunner.run_command(['apply'], interactive=True): subprocess.run
\* inside a try whose `except Exception` returns False. What is raised
\* inside subprocess.run while the command runs makes subprocess.run kill
\* the command and wait for it before the exception leaves it.
run_command(outcome) ==
    [ success |-> outcome = "ok",
      raised  |-> CASE outcome = "sigint"  -> handle_interrupt
                    [] outcome = "oserror" -> "OSError"
                    [] OTHER               -> "none",
      child   |-> CASE outcome = "sigint"  -> "killed"
                    [] outcome = "oserror" -> "none"
                    [] OTHER               -> "exited" ]

\* tf_runner.apply() starts `terraform apply` and waits for it
TfApply ==
    /\ pc = "tf_apply"
    /\ invoked' = Ran(tfdir, "apply")
    /\ hist' = [hist EXCEPT !.child = "running"]
    /\ pc' = "tf_applying"
    /\ UNCHANGED <<cloud, deploy_config, updater, tfdir, cred, tfdone, phases, outputs,
                   lb_url, exc, exit_code>>
    /\ UNCHANGED <<tfstate, backups, now, files, backup_dir, tmpdirs>>
    /\ UNCHANGED <<storeGhost, fuGhost, pollVars, teardown, certVars, extVars>>

\* tf_runner.apply() returns: the state file is terraform's to rewrite,
\* also when the apply fails part way; main raises on False
TfApplyReturns ==
    /\ pc = "tf_applying"
    /\ \E outcome \in ApplyOutcomes, new \in ResourceStates :
         LET r == run_command(outcome)
         IN  /\ hist' = [Fault(hist, ~r.success) EXCEPT
                            !.child = r.child,
                            !.sigint = IF outcome = "sigint" THEN r.raised ELSE @]
             /\ IF r.success
                  THEN /\ tfstate' = [tfstate EXCEPT ![tfdir] = new]
                       /\ phases' = Append(phases, "InfraApplied")
                       /\ pc' = "post_snapshot"
                       /\ exc' = exc
                  ELSE /\ tfstate' \in
                            IF outcome = "oserror"
                              THEN {tfstate}
                              ELSE {tfstate, [tfstate EXCEPT ![tfdir] = new]}
                       /\ phases' = phases
                       /\ Raise("Exception")
    /\ UNCHANGED <<cloud, deploy_config, updater, tfdir, cred, tfdone, invoked, outputs,
                   lb_url, exit_code>>
    /\ UNCHANGED <<backups, now, files, backup_dir, tmpdirs>>
    /\ UNCHANGED <<storeGhost, fuGhost, pollVars, teardown, certVars, extVars>>

\* The key the new environment's state is saved under: config.azure_location
\* in deploy_azure_terraform, config.aws_region in main
NewKey == IF tfdir = "azure" THEN deploy_config.azure_location
                             ELSE deploy_config.aws_region

\* save_state_for_region(dir, config.azure_location) in
\* deploy_azure_terraform, save_state_for_region(dir, config.aws_region) in
\* main; an AzureDeploymentConfig has no aws_region (AttributeError)
PostApplySnapshot ==
    /\ pc = "post_snapshot"
    /\ IF tfdir # "azure" /\ "aws_region" \notin DOMAIN deploy_config
         THEN Raise("Exception") /\ backups' = backups /\ hist' = hist
         ELSE /\ \E io \in CopyOutcomes :
                   /\ backups' = [backups EXCEPT ![tfdir] =
                         save_state_for_region(tfstate[tfdir], @, NewKey, io).backups]
                   /\ hist' = Fault(hist, io # "ok")
              /\ pc' = "kubectl"
              /\ exc' = exc
    /\ UNCHANGED <<cloud, deploy_config, updater, tfdir, cred, tfdone, phases, invoked,
                   outputs, lb_url, exit_code>>
    /\ UNCHANGED <<tfstate, now, files, backup_dir, tmpdirs>>
    /\ UNCHANGED <<storeGhost, fuGhost, pollVars, teardown, certVars, extVars>>

\* The outputs the repository's terraform defines
AllOutputs == {"configure_kubectl", "n8n_encryption_key_value"}

\* hist with the cluster-credential command's result noted
Kubectl(h, success) ==
    [h EXCEPT !.kubectl = IF success THEN "ok" ELSE "failed",
              !.faults = @ \/ ~success]

\* Azure: `az aks get-credentials`. AWS: tf_runner.get_outputs(), then the
\* configure_kubectl command if the outputs hold one.
ConfigureKubectl ==
    /\ pc = "kubectl"
    /\ \E success \in BOOLEAN, outs \in OutputSets :
         IF tfdir = "azure"
           THEN /\ outputs' = outputs
                /\ invoked' = Ran("cluster", "get-credentials")
                /\ hist' = Kubectl(hist, success)
                /\ IF success
                     THEN /\ phases' = Append(phases, "ClusterConfigured")
                          /\ pc' = "helm"
                          /\ exc' = exc
                     ELSE phases' = phases /\ Raise("Exception")
           ELSE /\ outputs' = outs
                /\ IF "configure_kubectl" \notin outs
                     THEN /\ invoked' = Ran("aws", "output")
                          /\ hist' = Fault(hist, TRUE)
                          /\ phases' = phases
                          /\ pc' = "helm"
                          /\ exc' = exc
                   ELSE /\ invoked' = Ran("aws", "output")
                                        \cup {[dir |-> "cluster", cmd |-> "get-credentials"]}
                        /\ hist' = Fault(Kubectl(hist, success), outs # AllOutputs)
                        /\ IF success
                             THEN /\ phases' = Append(phases, "ClusterConfigured")
                                  /\ pc' = "helm"
                                  /\ exc' = exc
                             ELSE phases' = phases /\ Raise("Exception")
    /\ UNCHANGED <<cloud, deploy_config, updater, tfdir, cred, tfdone, lb_url, exit_code>>
    /\ UNCHANGED <<tfstate, backups, now, files, backup_dir, tmpdirs>>
    /\ UNCHANGED <<storeGhost, fuGhost, pollVars, teardown, certVars, extVars>>

\* --skip-terraform: the state file must be there and the outputs readable
\* (sys.exit(1) otherwise); a configure_kubectl command that fails raises
SkipTerraformOutputs ==
    /\ pc = "st_outputs"
    /\ \E success \in BOOLEAN, outs \in OutputSets :
         IF tfstate[cloud] = "absent"
           THEN /\ Exit(1)
                /\ hist' = Fault(hist, TRUE)
                /\ UNCHANGED <<outputs, invoked, phases, exc>>
         ELSE IF outs = {}
           THEN /\ Exit(1)
                /\ outputs' = outs
                /\ invoked' = Ran(cloud, "output")
                /\ hist' = Fault(hist, TRUE)
                /\ UNCHANGED <<phases, exc>>
         ELSE IF "configure_kubectl" \notin outs
           THEN /\ outputs' = outs
                /\ invoked' = Ran(cloud, "output")
                /\ hist' = Fault(hist, TRUE)
                /\ pc' = "helm"
                /\ UNCHANGED <<phases, exc, exit_code>>
         ELSE /\ outputs' = outs
              /\ invoked' = Ran(cloud, "output")
                              \cup {[dir |-> "cluster", cmd |-> "get-credentials"]}
              /\ hist' = Fault(Kubectl(hist, success), outs # AllOutputs)
              /\ exit_code' = exit_code
              /\ IF success
                   THEN /\ phases' = Append(phases, "ClusterConfigured")
                        /\ pc' = "helm"
                        /\ exc' = exc
                   ELSE phases' = phases /\ Raise("Exception")
    /\ UNCHANGED <<cloud, deploy_config, updater, tfdir, cred, tfdone, lb_url>>
    /\ UNCHANGED <<tfstate, backups, now, files, backup_dir, tmpdirs>>
    /\ UNCHANGED <<storeGhost, fuGhost, pollVars, teardown, certVars, extVars>>

\* --configure-tls: tf_runner.get_outputs(), then the configure_kubectl
\* command if the outputs hold one; its failure is reported as a warning
ConfigureTlsKubectl ==
    /\ pc = "ct_kubectl"
    /\ \E success \in BOOLEAN, outs \in OutputSets :
         /\ outputs' = outs
         /\ IF "configure_kubectl" \notin outs
              THEN /\ invoked' = Ran(cloud, "output")
                   /\ hist' = Fault(hist, TRUE)
              ELSE /\ invoked' = Ran(cloud, "output")
                                   \cup {[dir |-> "cluster", cmd |-> "get-credentials"]}
                   /\ hist' = Fault(Kubectl(hist, success), outs # AllOutputs)
    /\ pc' = "ct_lb"
    /\ UNCHANGED <<cloud, deploy_config, updater, tfdir, cred, tfdone, phases, lb_url,
                   exc, exit_code>>
    /\ UNCHANGED <<tfstate, backups, now, files, backup_dir, tmpdirs>>
    /\ UNCHANGED <<storeGhost, fuGhost, pollVars, teardown, certVars, extVars>>

\* Azure: deploy_azure_helm, after which main goes on into its PHASE 1 block
\* (TerraformRunner(terraform/aws)). Otherwise PHASE 2,
\* helm_runner.deploy_n8n, not started without the encryption key of the
\* outputs.
DeployApplication ==
    /\ pc = "helm"
    /\ \E success \in BOOLEAN :
         IF tfdir = "azure"
           THEN /\ invoked' = Ran("charts", "deploy")
                /\ hist' = Fault(hist, ~success)
                /\ IF success
                     THEN /\ phases' = Append(phases, "AppDeployed")
                          /\ tfdir' = "aws"
                          /\ tfdone' = {}
                          /\ pc' = "tf_init"
                          /\ exc' = exc
                     ELSE Raise("Exception") /\ UNCHANGED <<phases, tfdir, tfdone>>
           ELSE IF "n8n_encryption_key_value" \notin outputs
                  THEN /\ Raise("Exception")
                       /\ hist' = Fault(hist, TRUE)
                       /\ UNCHANGED <<phases, tfdir, tfdone, invoked>>
                ELSE /\ invoked' = Ran("charts", "deploy")
                     /\ hist' = Fault(hist, ~success)
                     /\ UNCHANGED <<tfdir, tfdone>>
                     /\ IF success
                          THEN /\ phases' = Append(phases, "AppDeployed")
                               /\ pc' = "lb"
                               /\ exc' = exc
                          ELSE phases' = phases /\ Raise("Exception")
    /\ UNCHANGED <<cloud, deploy_config, updater, cred, outputs, lb_url, exit_code>>
    /\ UNCHANGED <<tfstate, backups, now, files, backup_dir, tmpdirs>>
    /\ UNCHANGED <<storeGhost, fuGhost, pollVars, teardown, certVars, extVars>>

\* loadbalancer_url = "<pending>"
PendingMarker == "<pending>"

\* as endpoint_or_pending, without the marker
endpoint_or_pending_unset(result) == result

\* `if not loadbalancer_url: loadbalancer_url = "<pending>"`
endpoint_or_pending(result) == IF result = None THEN PendingMarker ELSE result

\* as security_offered, whatever the endpoint
security_offered_always(url) == url # ""

\* `if loadbalancer_url != "<pending>":`
security_offered(url) == url # PendingMarker

\* What the operator does at a hardening step:
\*   declined   - answers no to the first question
\*   aborted    - answers yes, then gives up at a later question, before
\*                any command was run
\*   failed     - answers yes and a command fails
\*   configured - answers yes and the commands succeed
\*   interrupt  - interrupts the first question
HardeningAnswers == {"declined", "aborted", "failed", "configured", "interrupt"}

\* The TLS step has one more outcome: the operator answers yes and gives a
\* certificate and a key, and validate_certificate_chain, called outside any
\* try, raises (no temporary file could be made)
TlsAnswers == HardeningAnswers \cup {"raises"}

\* The exception that leaves a hardening step that raised
raised_kind(answer) == IF answer = "raises" THEN "Exception" ELSE "SetupInterrupted"

\* as hardening_step, running the commands also when the operator declined
hardening_step_runs_anyway(name, answer) ==
    [ prompts  |-> {name},
      optins   |-> IF answer \in {"aborted", "failed", "configured", "raises"}
                     THEN {name} ELSE {},
      commands |-> IF answer \notin {"interrupt", "raises"} THEN {name} ELSE {},
      ret      |-> answer = "configured",
      raised   |-> answer \in {"interrupt", "raises"} ]

\* configure_tls_interactive / configure_basic_auth_interactive: the prompt
\* shown, whether the operator opted in, the cluster commands run and the
\* value returned
hardening_step(name, answer) ==
    [ prompts  |-> {name},
      optins   |-> IF answer \in {"aborted", "failed", "configured", "raises"}
                     THEN {name} ELSE {},
      commands |-> IF answer \in {"failed", "configured"} THEN {name} ELSE {},
      ret      |-> answer = "configured",
      raised   |-> answer \in {"interrupt", "raises"} ]

configure_tls_interactive(answer) == hardening_step("tls", answer)

configure_basic_auth_interactive(answer) == hardening_step("basic_auth", answer)

ClusterCommands(names) == {[dir |-> "cluster", cmd |-> n] : n \in names}

\* What the kubectl calls of the polls of main answer. The SIGINT handler
\* that raises SetupInterrupted is installed once a ConfigurationPrompt was
\* made, which the full deployment has done by then.
MainAnswers(mode) ==
    { [hostname |-> h, ip |-> ""] :
        h \in {"", "elb.example"} \cup (IF mode = "full" THEN {"interrupt"} ELSE {}) }

\* An exception of a probe was caught inside the poll
CaughtInPoll(r, probes) ==
    \E i \in DOMAIN r.log :
        /\ r.log[i].ev = "probe"
        /\ probes[r.log[i].attempt][r.log[i].what] \in ProbeRaises

\* PHASE 3: get_loadbalancer_url(max_attempts=30, delay=10); PHASE 4 is
\* gone into if the endpoint is not the pending marker
DiscoverEndpoint ==
    /\ pc = "lb"
    /\ \E probes \in [1..PollBudget -> MainAnswers(hist.mode)] :
         LET r == get_loadbalancer_url(PollBudget, 10, probes)
             url == endpoint_or_pending(r.result)
         IN  /\ lb_url' = url
             /\ invoked' = Ran("cluster", "get-endpoint")
             /\ hist' = [hist EXCEPT !.poll = r.result,
                                     !.caught = @ \/ CaughtInPoll(r, probes),
                                     !.faults = @ \/ r.result = None
                                                  \/ CaughtInPoll(r, probes)]
             /\ phases' = IF r.result # None
                             THEN Append(phases, "EndpointDiscovered")
                             ELSE phases
             /\ pc' = IF security_offered(url) THEN "security" ELSE "cleanup"
    /\ UNCHANGED <<cloud, deploy_config, updater, tfdir, cred, tfdone, outputs,
                   exc, exit_code>>
    /\ UNCHANGED <<tfstate, backups, now, files, backup_dir, tmpdirs>>
    /\ UNCHANGED <<storeGhost, fuGhost, pollVars, teardown, certVars, extVars>>

\* --configure-tls: get_loadbalancer_url, sys.exit(1) without an address
ConfigureTlsEndpoint ==
    /\ pc = "ct_lb"
    /\ \E probes \in [1..PollBudget -> MainAnswers(hist.mode)] :
         LET r == get_loadbalancer_url(PollBudget, 10, probes)
         IN  /\ invoked' = Ran("cluster", "get-endpoint")
             /\ hist' = Fault([hist EXCEPT !.poll = r.result], r.result = None)
             /\ IF r.result = None
                  THEN Exit(1) /\ lb_url' = lb_url
                  ELSE /\ lb_url' = r.result
                       /\ pc' = "ct_tls"
                       /\ exit_code' = exit_code
    /\ UNCHANGED <<cloud, deploy_config, updater, tfdir, cred, tfdone, phases, outputs,
                   exc>>
    /\ UNCHANGED <<tfstate, backups, now, files, backup_dir, tmpdirs>>
    /\ UNCHANGED <<storeGhost, fuGhost, pollVars, teardown, certVars, extVars>>

\* --configure-tls: configure_tls_interactive, then
\* sys.exit(0 if success else 1)
ConfigureTlsOnly ==
    /\ pc = "ct_tls"
    /\ \E answer \in TlsAnswers :
         LET t == configure_tls_interactive(answer)
         IN  /\ invoked' = invoked \cup ClusterCommands(t.commands)
             /\ hist' = [hist EXCEPT !.prompts = @ \cup t.prompts,
                                     !.optins = @ \cup t.optins,
                                     !.hardening = Append(@, [step |-> "tls", went |-> answer]),
                                     !.faults = @ \/ answer \in {"failed", "interrupt", "raises"}]
             /\ IF t.raised
                  THEN Raise(raised_kind(answer)) /\ exit_code' = exit_code
                  ELSE Exit(IF t.ret THEN 0 ELSE 1) /\ exc' = exc
    /\ UNCHANGED <<cloud, deploy_config, updater, tfdir, cred, tfdone, phases, outputs,
                   lb_url>>
    /\ UNCHANGED <<tfstate, backups, now, files, backup_dir, tmpdirs>>
    /\ UNCHANGED <<storeGhost, fuGhost, pollVars, teardown, certVars, extVars>>

\* PHASE 4: configure_tls_interactive, then configure_basic_auth_interactive
HardenSecurity ==
    /\ pc = "security"
    /\ \E tls \in TlsAnswers, auth \in HardeningAnswers :
         LET t == configure_tls_interactive(tls)
             b == configure_basic_auth_interactive(auth)
             both == [ prompts  |-> t.prompts \cup b.prompts,
                       optins   |-> t.optins \cup b.optins,
                       commands |-> t.commands \cup b.commands ]
             done == IF t.raised THEN t ELSE both
         IN  /\ invoked' = invoked \cup ClusterCommands(done.commands)
             /\ hist' = [hist EXCEPT !.prompts = @ \cup done.prompts,
                                     !.optins = @ \cup done.optins,
                                     !.hardening =
                                        IF t.raised
                                          THEN <<[step |-> "tls", went |-> tls]>>
                                          ELSE <<[step |-> "tls", went |-> tls],
                                                 [step |-> "basic_auth", went |-> auth]>>,
                                     !.faults = @ \/ tls \in {"failed", "interrupt", "raises"}
                                                  \/ auth \in {"failed", "interrupt"}]
             /\ IF t.raised \/ b.raised
                  THEN Raise(raised_kind(IF t.raised THEN tls ELSE auth)) /\ phases' = phases
                  ELSE /\ phases' = IF t.ret \/ b.ret
                                      THEN Append(phases, "SecurityHardened")
                                      ELSE phases
                       /\ pc' = "cleanup"
                       /\ exc' = exc
    /\ UNCHANGED <<cloud, deploy_config, updater, tfdir, cred, tfdone, outputs,
                   lb_url, exit_code>>
    /\ UNCHANGED <<tfstate, backups, now, files, backup_dir, tmpdirs>>
    /\ UNCHANGED <<storeGhost, fuGhost, pollVars, teardown, certVars, extVars>>

\* "Cleanup backup on success (only if updater was created)"
Finish ==
    /\ pc = "cleanup"
    /\ tmpdirs' = IF updater THEN cleanup_backup(backup_dir, tmpdirs) ELSE tmpdirs
    /\ hist' = [hist EXCEPT !.handled = IF updater THEN <<"cleanup_backup">> ELSE <<>>]
    /\ phases' = Append(phases, "Done")
    /\ Exit(0)
    /\ UNCHANGED <<cloud, deploy_config, updater, tfdir, cred, tfdone, invoked, outputs,
                   lb_url, exc>>
    /\ UNCHANGED <<tfstate, backups, now, files, backup_dir>>
    /\ UNCHANGED <<storeGhost, fuGhost, pollVars, teardown, certVars, extVars>>

\* as handler_calls, without the restore
handler_calls_cleanup_only(upd) == IF upd THEN <<"cleanup_backup">> ELSE <<>>

\* `if 'updater' in locals(): updater.restore_backup();
\* updater.cleanup_backup()`
handler_calls(upd) == IF upd THEN <<"restore_backup", "cleanup_backup">> ELSE <<>>

\* The files after the calls of an exit path
AfterCalls(calls, fs, bdir, dirs) ==
    IF \E i \in DOMAIN calls : calls[i] = "restore_backup"
      THEN restore_backup(fs, bdir, dirs) ELSE fs

\* except SetupInterrupted / except Exception: restore_backup and
\* cleanup_backup if the updater was created, then sys.exit(1)
HandleException ==
    /\ pc = "handler"
    /\ LET calls == handler_calls(updater)
       IN  /\ files' = AfterCalls(calls, files, backup_dir, tmpdirs)
           /\ tmpdirs' = IF \E i \in DOMAIN calls : calls[i] = "cleanup_backup"
                           THEN cleanup_backup(backup_dir, tmpdirs) ELSE tmpdirs
           /\ hist' = [hist EXCEPT !.handled = calls]
    /\ Exit(1)
    /\ UNCHANGED <<cloud, deploy_config, updater, tfdir, cred, tfdone, phases, invoked,
                   outputs, lb_url, exc>>
    /\ UNCHANGED <<tfstate, backups, now, backup_dir>>
    /\ UNCHANGED <<storeGhost, fuGhost, pollVars, teardown, certVars, extVars>>

NextMain ==
    \/ CheckDependencies
    \/ RestoreRegion
    \/ LoadExisting
    \/ VerifyCredentials
    \/ CollectConfiguration
    \/ SaveHistory
    \/ ApplyConfig
    \/ TfInit
    \/ TfPlan
    \/ ConfirmApply
    \/ PreApplySnapshot
    \/ TfApply
    \/ TfApplyReturns
    \/ PostApplySnapshot
    \/ ConfigureKubectl
    \/ SkipTerraformOutputs
    \/ ConfigureTlsKubectl
    \/ DeployApplication
    \/ DiscoverEndpoint
    \/ ConfigureTlsEndpoint
    \/ ConfigureTlsOnly
    \/ HardenSecurity
    \/ Finish
    \/ HandleException

SpecMain == InitMain /\ [][NextMain]_vars

(***************************************************************************)
(* main() with --teardown: TeardownRunner.run and AKSTeardown.execute      *)
(***************************************************************************)
\* `for i in range(5, 0, -1): time.sleep(1)`
CountdownSeconds == 5

\* What a command of a phase does: returns 0, returns non-zero, or raises
\* (time-out, OSError, the SetupInterrupted of the SIGINT handler)
CommandOutcomes == {"ok", "fail", "raises"}

ClusterStates == {"reachable", "unreachable", "raises"}

\* as proceeds_after_prompt, every answer given taken for a yes
proceeds_after_prompt_any_answer(answer) == answer \in {"yes", "no"}

\* `if not prompt.prompt_yes_no("Are you ABSOLUTELY SURE ..."): return False`
proceeds_after_prompt(answer) == answer = "yes"

\* What a SIGINT raises once a ConfigurationPrompt was made: its handler
\* replaces the default one, so that no KeyboardInterrupt is raised
SigintRaises == "SetupInterrupted"

\* `except KeyboardInterrupt:` around the countdown
countdown_catches(kind) == kind = "KeyboardInterrupt"

\* What the commands before `terraform destroy` answer in phase 3 of AWS:
\*   list:   `terraform state list`: names an aws_db_instance ("db"), names
\*           none ("nodb"), returns non-zero, raises
\*   show:   `terraform state show`: has an identifier line ("id"), has
\*           none ("noid"), returns non-zero, raises
\*   check:  `aws rds describe-db-instances`: "TRUE", "FALSE", returns
\*           non-zero, raises
\*   modify: `aws rds modify-db-instance --no-deletion-protection`
RdsOutcomes ==
    [ list : {"db", "nodb", "fail", "raises"}, show : {"id", "noid", "fail", "raises"},
      check : {"TRUE", "FALSE", "fail", "raises"}, modify : {"ok", "fail", "raises"} ]

\* as phase3_terraform_destroy, giving up with False when the deletion
\* protection could not be cleared
phase3_terraform_destroy_unless_protected(state, rds, cmd) ==
    IF ~state
      THEN [ret |-> TRUE, log |-> <<>>, protected |-> FALSE]
    ELSE LET shown     == rds.list = "db"
             checked   == shown /\ rds.show = "id"
             protected == checked /\ rds.check = "TRUE"
             before    == <<"state list">>
                          \o (IF shown THEN <<"state show">> ELSE <<>>)
                          \o (IF checked THEN <<"describe-db-instances">> ELSE <<>>)
                          \o (IF protected THEN <<"modify-db-instance">> ELSE <<>>)
         IN  IF protected /\ rds.modify # "ok"
               THEN [ret |-> FALSE, log |-> before, protected |-> protected]
               ELSE [ret |-> cmd = "ok", log |-> before \o <<"terraform destroy">>,
                     protected |-> protected]

\* TeardownRunner.phase3_terraform_destroy: True with nothing run when
\* terraform.tfstate is missing; else the check for an RDS instance with
\* deletion protection, every failure of which is printed and passed over,
\* and then `terraform destroy`, whose result is returned
phase3_terraform_destroy(state, rds, cmd) ==
    IF ~state
      THEN [ret |-> TRUE, log |-> <<>>, protected |-> FALSE]
    ELSE LET shown     == rds.list = "db"
             checked   == shown /\ rds.show = "id"
             protected == checked /\ rds.check = "TRUE"
             before    == <<"state list">>
                          \o (IF shown THEN <<"state show">> ELSE <<>>)
                          \o (IF checked THEN <<"describe-db-instances">> ELSE <<>>)
                          \o (IF protected THEN <<"modify-db-instance">> ELSE <<>>)
         IN  [ret |-> cmd = "ok", log |-> before \o <<"terraform destroy">>,
              protected |-> protected]

\* The secrets `aws secretsmanager list-secrets` can name
Secrets == {"s1", "s2"}

\* What phase 4 of AWS meets:
\*   list:   the names listed (a sequence), or "fail" / "raises" as the one
\*           element when the command returns non-zero or raises
\*   answer: the answer to "Delete these secrets from AWS Secrets
\*           Manager?": "y", "n", "" (Enter), or "interrupt"
\*   del:    what `delete-secret` does for each secret
SecretRuns ==
    [ list : {<<>>, <<"s1">>, <<"s1", "s2">>, <<"fail">>, <<"raises">>},
      answer : {"y", "n", "", "interrupt"},
      del : [Secrets -> CommandOutcomes] ]

\* as prompt_yes_no, taking every answer for a yes
prompt_yes_no_always(answer, default) ==
    [raised |-> FALSE, value |-> TRUE]

\* ConfigurationPrompt.prompt_yes_no: the default for an empty answer;
\* SetupInterrupted on EOF or Ctrl+C
prompt_yes_no(answer, default) ==
    [raised |-> answer = "interrupt",
     value  |-> IF answer = "" THEN default ELSE answer = "y"]

\* The first i elements of a sequence of secrets, as delete-secret commands
DeleteCommands(names) == [i \in DOMAIN names |-> "delete-secret " \o names[i]]

\* TeardownRunner.phase4_secrets_manager: the secrets are listed; if there
\* are any the operator is asked, and on a yes each is deleted in turn
\* inside its own try; True whatever happens
phase4_secrets_manager(sec) ==
    LET found  == IF sec.list \in {<<"fail">>, <<"raises">>} THEN <<>> ELSE sec.list
        asked  == found # <<>>
        a      == prompt_yes_no(sec.answer, TRUE)
        agreed == asked /\ ~a.raised /\ a.value
    IN  [ ret     |-> TRUE,
          listed  |-> {found[i] : i \in DOMAIN found},
          answer  |-> IF asked THEN sec.answer ELSE "none",
          agreed  |-> agreed,
          log     |-> <<"list-secrets">> \o (IF agreed THEN DeleteCommands(found) ELSE <<>>),
          deleted |-> IF agreed
                        THEN {found[i] : i \in {j \in DOMAIN found : sec.del[found[j]] = "ok"}}
                        ELSE {} ]

\* What a phase can meet: all of `choices` in phase `phase` of AWS, and one
\* of them, which is not looked at, in every other phase
PhaseChoices(choices, cloud_provider, k, phase) ==
    IF cloud_provider = "aws" /\ k = phase
      THEN choices ELSE {CHOOSE c \in choices : TRUE}

\* A phase with nothing to add to what teardown_phase says of it
PhaseDetail(log) ==
    [log |-> log, protected |-> FALSE, listed |-> {}, answer |-> "none", agreed |-> FALSE,
     deleted |-> {}]

\* A phase of the teardown: what it returns, whether an exception leaves
\* it, and the uninstall, delete and destroy commands it runs.
\*   phase 1: helm uninstall, skipped with True when the cluster cannot be
\*            reached; a failing or raising command makes it False
\*   phase 2: kubectl delete, skipped with True when the cluster cannot be
\*            reached; AWS returns True whatever happens, Azure False when
\*            the namespace delete fails or raises
\*   phase 3: terraform destroy, skipped with True when the state file
\*            (AWS) or the terraform directory (Azure) is missing; AWS runs
\*            the command inside a try, Azure outside of any
\*   phase 4: AWS deletes the secrets, Azure only lists the deleted vaults;
\*            True whatever happens
teardown_phase(cloud_provider, k, cluster, state, cmd, rds, sec) ==
    CASE k = 1 ->
           IF cluster # "reachable"
             THEN [ret |-> TRUE, raised |-> FALSE, cmds |-> {}, detail |-> PhaseDetail(<<>>)]
             ELSE [ret |-> cmd = "ok", raised |-> FALSE, cmds |-> {"helm uninstall"},
                   detail |-> PhaseDetail(<<>>)]
      [] k = 2 ->
           IF cluster # "reachable"
             THEN [ret |-> TRUE, raised |-> FALSE, cmds |-> {}, detail |-> PhaseDetail(<<>>)]
             ELSE [ret |-> cloud_provider = "aws" \/ cmd = "ok", raised |-> FALSE,
                   cmds |-> {"kubectl delete"}, detail |-> PhaseDetail(<<>>)]
      [] k = 3 ->
           IF cloud_provider = "aws"
             THEN LET r == phase3_terraform_destroy(state, rds, cmd)
                  IN  [ret |-> r.ret, raised |-> FALSE,
                       cmds |-> IF state THEN {"terraform destroy"} ELSE {},
                       detail |-> [PhaseDetail(r.log) EXCEPT !.protected = r.protected]]
           ELSE IF ~state
             THEN [ret |-> TRUE, raised |-> FALSE, cmds |-> {}, detail |-> PhaseDetail(<<>>)]
           ELSE IF cmd = "raises"
             THEN [ret |-> FALSE, raised |-> TRUE, cmds |-> {"terraform destroy"},
                   detail |-> PhaseDetail(<<"terraform destroy">>)]
           ELSE [ret |-> cmd = "ok", raised |-> FALSE, cmds |-> {"terraform destroy"},
                 detail |-> PhaseDetail(<<"terraform destroy">>)]
      [] OTHER ->
           IF cloud_provider = "aws"
             THEN LET r == phase4_secrets_manager(sec)
                  IN  [ret |-> r.ret, raised |-> FALSE,
                       cmds |-> IF r.agreed THEN {"delete-secret"} ELSE {},
                       detail |-> [log |-> r.log, protected |-> FALSE, listed |-> r.listed,
                                   answer |-> r.answer, agreed |-> r.agreed,
                                   deleted |-> r.deleted]]
             ELSE [ret |-> TRUE, raised |-> FALSE, cmds |-> {},
                   detail |-> PhaseDetail(<<"keyvault list-deleted">>)]

\* `success = self.phaseN() and success`, four times
AllSucceeded(results) == \A i \in DOMAIN results : results[i]

InitTeardown ==
    /\ \E c \in {"aws", "azure"}, cl \in ClusterStates, st \in BOOLEAN,
          key \in {"", RestoreKey}, live \in {"absent", "A"}, b \in {"absent", "B"} :
         /\ key = "" => b = "absent"
         /\ c = "aws" => st = (live # "absent")
         /\ c = "azure" => ((live # "absent" \/ b # "absent") => st)
         /\ teardown = [NoTeardown EXCEPT !.pc = IF key = "" THEN "prepare" ELSE "restore",
                                          !.cloud = c, !.cluster = cl, !.state = st,
                                          !.restore = key, !.live0 = live]
         /\ tfstate = [d \in Dirs |-> IF d = c THEN live ELSE "absent"]
         /\ backups = [d \in Dirs |->
                         IF d = c THEN [NoBackups EXCEPT ![BackupName(RestoreKey)] = b]
                                  ELSE NoBackups]
    /\ now = 1
    /\ call = NoCall
    /\ preserved = {}
    /\ FuIdle
    /\ pc = "idle"
    /\ cloud = "aws"
    /\ deploy_config = EmptyConfig
    /\ updater = FALSE
    /\ tfdir = "none"
    /\ cred = "none"
    /\ tfdone = {}
    /\ phases = <<>>
    /\ invoked = {}
    /\ outputs = {}
    /\ lb_url = ""
    /\ exc = "none"
    /\ exit_code = -1
    /\ hist = NoHist
    /\ PollIdle
    /\ CertIdle
    /\ ExtIdle

\* --restore-region with --teardown: restore_state_for_region on the
\* terraform directory of the cloud provider, sys.exit(1) when it returns
\* False, and on to the teardown otherwise
TeardownRestore ==
    /\ teardown.pc = "restore"
    /\ \E io1 \in CopyOutcomes, io2 \in CopyOutcomes :
         LET dir == teardown.cloud
             r == restore_state_for_region(tfstate[dir], backups[dir], teardown.restore,
                                           now, io1, io2)
         IN  /\ tfstate' = [tfstate EXCEPT ![dir] = r.tfstate]
             /\ backups' = [backups EXCEPT ![dir] = r.backups]
             /\ teardown' =
                   IF r.ret
                     THEN [teardown EXCEPT !.pc = "prepare", !.restored = "true",
                                           !.state = TRUE]
                     ELSE [teardown EXCEPT !.pc = "exited", !.restored = "false",
                                           !.exit_code = 1]
    /\ UNCHANGED <<now, call, preserved>>
    /\ UNCHANGED <<fuVars, mainVars, pollVars, certVars, extVars>>

\* The teardown flow of main up to teardown.run(): Azure reads its tfvars;
\* AWS detects the configuration, verifies the credentials and, when the
\* check fails, asks whether to go on (sys.exit(1) on no).
TeardownPrepare ==
    /\ teardown.pc = "prepare"
    /\ \E success \in BOOLEAN, answer \in {"yes", "no", "interrupt"} :
         teardown' =
           IF teardown.cloud = "azure" \/ success
             THEN [teardown EXCEPT !.pc = "confirm"]
           ELSE IF answer = "interrupt"
             THEN [teardown EXCEPT !.pc = "handler", !.exc = "SetupInterrupted"]
           ELSE IF answer = "yes"
             THEN [teardown EXCEPT !.pc = "confirm"]
           ELSE [teardown EXCEPT !.pc = "exited", !.exit_code = 1]
    /\ UNCHANGED <<storeVars, fuVars, mainVars, pollVars, certVars, extVars>>

\* The banner and the confirmation prompt of run / execute
TeardownConfirm ==
    /\ teardown.pc = "confirm"
    /\ \E answer \in {"yes", "no", "interrupt"} :
         teardown' =
           IF answer = "interrupt"
             THEN [teardown EXCEPT !.pc = "handler", !.exc = "SetupInterrupted"]
           ELSE IF proceeds_after_prompt(answer)
             THEN [teardown EXCEPT !.pc = "countdown", !.confirmed = answer = "yes",
                                   !.left = CountdownSeconds]
           ELSE [teardown EXCEPT !.pc = "returned", !.results = <<FALSE>>]
    /\ UNCHANGED <<storeVars, fuVars, mainVars, pollVars, certVars, extVars>>

\* One second of the countdown; a Ctrl+C during it
TeardownCountdown ==
    /\ teardown.pc = "countdown"
    /\ \E sigint \in BOOLEAN :
         teardown' =
           IF sigint
             THEN IF countdown_catches(SigintRaises)
                    THEN [teardown EXCEPT !.pc = "returned", !.results = <<FALSE>>]
                    ELSE [teardown EXCEPT !.pc = "handler", !.exc = SigintRaises]
           ELSE IF teardown.left > 1
             THEN [teardown EXCEPT !.left = @ - 1]
           ELSE [teardown EXCEPT !.left = 0, !.counted = TRUE, !.pc = "phases"]
    /\ UNCHANGED <<storeVars, fuVars, mainVars, pollVars, certVars, extVars>>

\* The next of the four phases
TeardownPhase ==
    /\ teardown.pc = "phases"
    /\ \E cmd \in CommandOutcomes,
          rds \in PhaseChoices(RdsOutcomes, teardown.cloud, Len(teardown.started) + 1, 3),
          sec \in PhaseChoices(SecretRuns, teardown.cloud, Len(teardown.started) + 1, 4) :
         LET k == Len(teardown.started) + 1
             dir == teardown.cloud
             r == teardown_phase(teardown.cloud, k, teardown.cluster, teardown.state, cmd,
                                 rds, sec)
             destroys == "terraform destroy" \in r.cmds
         IN  /\ teardown' =
                   [teardown EXCEPT
                      !.started = Append(@, k),
                      !.cmds = @ \cup r.cmds,
                      !.results = IF r.raised THEN @ ELSE Append(@, r.ret),
                      !.exc = IF r.raised THEN "Exception" ELSE @,
                      !.log = @ \o r.detail.log,
                      !.protected = @ \/ r.detail.protected,
                      !.listed = @ \cup r.detail.listed,
                      !.answer = IF k = 4 THEN r.detail.answer ELSE @,
                      !.agreed = @ \/ r.detail.agreed,
                      !.deleted = @ \cup r.detail.deleted,
                      !.destroyed = IF destroys THEN tfstate[dir] ELSE @,
                      !.pc = IF r.raised THEN "handler"
                             ELSE IF k = 4 THEN "returned" ELSE "phases"]
             /\ tfstate' = IF destroys /\ cmd = "ok"
                             THEN [tfstate EXCEPT ![dir] = "empty"]
                             ELSE tfstate
    /\ UNCHANGED <<backups, now, call, preserved>>
    /\ UNCHANGED <<fuVars, mainVars, pollVars, certVars, extVars>>

\* `success = teardown.run(); sys.exit(0 if success else 1)`
TeardownExit ==
    /\ teardown.pc = "returned"
    /\ teardown' = [teardown EXCEPT
                      !.pc = "exited",
                      !.exit_code = IF AllSucceeded(teardown.results) THEN 0 ELSE 1]
    /\ UNCHANGED <<storeVars, fuVars, mainVars, pollVars, certVars, extVars>>

\* except SetupInterrupted / except Exception of main: no updater exists,
\* sys.exit(1)
TeardownHandleException ==
    /\ teardown.pc = "handler"
    /\ teardown' = [teardown EXCEPT !.pc = "exited", !.exit_code = 1]
    /\ UNCHANGED <<storeVars, fuVars, mainVars, pollVars, certVars, extVars>>

NextTeardown ==
    \/ TeardownRestore
    \/ TeardownPrepare
    \/ TeardownConfirm
    \/ TeardownCountdown
    \/ TeardownPhase
    \/ TeardownExit
    \/ TeardownHandleException

SpecTeardown == InitTeardown /\ [][NextTeardown]_vars

(***************************************************************************)
(* CertificateValidator.validate_certificate_chain(cert, key, domain)      *)
(***************************************************************************)
\* A DNS name is the sequence of its labels: a.example.com is
\* <<"a", "example", "com">>, .example.com is <<"", "example", "com">>.
\* The names the certificates and the hostnames are made of
ExampleCom == <<"example", "com">>

Hostnames ==
    { <<"a">> \o ExampleCom, <<"b">> \o ExampleCom, <<"a", "b">> \o ExampleCom,
      ExampleCom, <<"">> \o ExampleCom }

CertNames == { <<"*">> \o ExampleCom, <<"a">> \o ExampleCom, <<"b">> \o ExampleCom }

\* What follows a name in the text of `openssl x509 -text` up to the
\* character the regular expression stops at
FollowingText == "\n..."

\* The name as a group of the regular expression captures it when the text
\* goes on after it: the last label runs on into the following text
WithFollowingText(name) == [name EXCEPT ![Len(name)] = FollowingText]

\* re.search(r'X509v3 Subject Alternative Name: \n\s*DNS:([^,]+)', text) and
\* group(1).split(', DNS:'): the group ends at the first comma, which is the
\* end of the first entry when there are several, and lies in the text
\* after the extension when there is one entry
parse_sans(sans) ==
    IF sans = <<>> THEN {}
    ELSE IF Len(sans) = 1 THEN {WithFollowingText(sans[1])}
    ELSE {sans[1]}

\* re.search(r'Subject:.*? CN = ([^/]+)', text): the group runs from the
\* common name on to the next "/" of the text
parse_cn(cn) == IF cn = <<>> THEN {} ELSE {WithFollowingText(cn)}

\* valid_domains = set(sans + ([cn] if cn else []))
valid_domains(text) == parse_sans(text.sans) \cup parse_cn(text.cn)

\* valid_domain.startswith('*.')
IsWildcard(valid_domain) == Len(valid_domain) >= 2 /\ valid_domain[1] = "*"

\* domain.endswith(valid_domain[1:]): the domain ends with a dot and the
\* labels after the star
EndsWithSuffix(domain, valid_domain) ==
    /\ Len(domain) >= Len(valid_domain)
    /\ \A i \in 2..Len(valid_domain) :
          domain[Len(domain) - Len(valid_domain) + i] = valid_domain[i]

\* name.count('.')
CountDots(name) == Len(name) - 1

\* The body of `for valid_domain in valid_domains:`
authorizes(valid_domain, domain) ==
    IF IsWildcard(valid_domain)
      THEN /\ EndsWithSuffix(domain, valid_domain)
           /\ CountDots(domain) = CountDots(valid_domain)
      ELSE domain = valid_domain

\* What happens to the two temporary files: both written; the first or the
\* second NamedTemporaryFile raises; a write raises
TmpOutcomes == {"ok", "create_first", "create_second", "write"}

\* The stdout of the two `openssl ... -modulus` calls: "" when openssl
\* could not read the certificate or the key
Moduli == {"", "m1", "m2"}

\* The stdout of `openssl x509 -enddate`: a date to come, a date gone by,
\* or no notAfter= line (malformed PEM)
EndDates == {"valid", "expired", "missing"}

\* as key_pair_matches, the comparison left out
key_pair_matches_always(cert_modulus, key_modulus) == TRUE

\* `if cert_modulus != key_modulus: return False, ...`
key_pair_matches(cert_modulus, key_modulus) == cert_modulus = key_modulus

\* The result of the call: the pair returned, or the exception raised to
\* the caller, and the temporary files still there.
\*   msg: "mismatch", "expired", "valid", "not_valid_for_domain" (with the
\*   names the message lists) or "unexpected" (the except branch)
Returned(ok, msg, listed) ==
    [called |-> TRUE, raised |-> FALSE, ok |-> ok, msg |-> msg, listed |-> listed,
     left |-> {}]

\* finally: os.unlink(cert_path) with cert_path never assigned
RaisedInFinally(left) ==
    [called |-> TRUE, raised |-> TRUE, ok |-> FALSE, msg |-> "UnboundLocalError",
     listed |-> {}, left |-> left]

validate_certificate_chain(inp) ==
    CASE inp.tmp = "create_first"  -> RaisedInFinally({})
      [] inp.tmp = "create_second" -> RaisedInFinally({"crt"})
      [] inp.tmp = "write"         -> Returned(FALSE, "unexpected", {})
      [] OTHER ->
           IF ~key_pair_matches(inp.cert_modulus, inp.key_modulus)
             THEN Returned(FALSE, "mismatch", {})
           ELSE IF inp.enddate = "missing"
             THEN Returned(FALSE, "unexpected", {})
           ELSE IF inp.enddate = "expired"
             THEN Returned(FALSE, "expired", {})
           ELSE IF \E v \in valid_domains(inp.text) : authorizes(v, inp.domain)
             THEN Returned(TRUE, "valid", {})
           ELSE Returned(FALSE, "not_valid_for_domain", valid_domains(inp.text))

\* The SAN lists of the certificates: up to MaxSans names
SanLists == UNION { [1..n -> CertNames] : n \in 0..MaxSans }

InitCert ==
    /\ \E t \in TmpOutcomes, cm \in Moduli, km \in Moduli, e \in EndDates,
          sans \in SanLists, cn \in CertNames \cup {<<>>}, d \in Hostnames :
          cert_in = [called |-> FALSE, tmp |-> t, cert_modulus |-> cm, key_modulus |-> km,
                     enddate |-> e, text |-> [sans |-> sans, cn |-> cn], domain |-> d]
    /\ cert_out = NoValidation
    /\ StoreIdle
    /\ FuIdle
    /\ pc = "idle"
    /\ cloud = "aws"
    /\ deploy_config = EmptyConfig
    /\ updater = FALSE
    /\ tfdir = "none"
    /\ cred = "none"
    /\ tfdone = {}
    /\ phases = <<>>
    /\ invoked = {}
    /\ outputs = {}
    /\ lb_url = ""
    /\ exc = "none"
    /\ exit_code = -1
    /\ hist = NoHist
    /\ PollIdle
    /\ TeardownIdle
    /\ ExtIdle

\* One call of validate_certificate_chain(cert_content, key_content, domain)
Validate ==
    /\ ~cert_in.called
    /\ cert_in' = [cert_in EXCEPT !.called = TRUE]
    /\ cert_out' = validate_certificate_chain(cert_in)
    /\ UNCHANGED <<storeVars, fuVars, mainVars, pollVars, teardown, extVars>>

NextCert == Validate

SpecCert == InitCert /\ [][NextCert]_vars

(***************************************************************************)
(* The configuration values of a run: n8n_host and n8n_encryption_key      *)
(***************************************************************************)
\* `len(key) == 64`
KeyLength == 64

\* A key text is its length and whether every character of it is one of
\* '0123456789abcdefABCDEF'.
KeyText(len, hex) == [len |-> len, hex |-> hex]

\* What the operator can type at the key prompt or a terraform.tfvars can
\* hold: one character short, the right length, one too long, with and
\* without a character that is no hexadecimal digit
KeyTexts == {KeyText(l, h) : l \in {KeyLength - 1, KeyLength, KeyLength + 1},
                             h \in BOOLEAN}

\* DeploymentConfig().n8n_encryption_key before it is set
NoKey == KeyText(0, TRUE)

\* secrets.token_hex(nbytes): two hexadecimal digits for each byte
token_hex(nbytes) == KeyText(2 * nbytes, TRUE)

\* `len(key) == 64 and all(c in '0123456789abcdefABCDEF' for c in key)`
key_accepted(key) == key.len = KeyLength /\ key.hex

\* ConfigurationPrompt.prompt: the stripped answer, the default for an empty
\* one; asked again while required and still empty
prompt(answer, default, required) ==
    LET a == IF answer = "" THEN default ELSE answer
    IN  [asked_again |-> required /\ a = "", value |-> a]

\* What the operator answers at the hostname prompt
HostAnswers == {"", "h1"}

\* terraform.tfvars as load_existing_configuration reads it: the value of
\* the n8n_host line ("none": no such line), whether there is an
\* n8n_encryption_key line and its value, or no file
TfvarsTexts ==
    { [exists |-> FALSE] } \cup
    { [exists |-> TRUE, n8n_host |-> h, key_line |-> FALSE,
       n8n_encryption_key |-> NoKey] : h \in {"none", "", "h1"} } \cup
    { [exists |-> TRUE, n8n_host |-> h, key_line |-> TRUE,
       n8n_encryption_key |-> k] : h \in {"none", "", "h1"}, k \in KeyTexts }

\* load_existing_configuration, the two fields: FileNotFoundError without
\* the file, ValueError without an n8n_host; the key is taken as it stands
load_config_values(tfvars) ==
    IF ~tfvars.exists
      THEN [raised |-> TRUE]
    ELSE LET host == IF tfvars.n8n_host = "none" THEN "" ELSE tfvars.n8n_host
             key  == IF tfvars.key_line THEN tfvars.n8n_encryption_key ELSE NoKey
         IN  IF host = ""
               THEN [raised |-> TRUE]
               ELSE [raised |-> FALSE, n8n_host |-> host, n8n_encryption_key |-> key]

\* A run at its start.
\*   pc:      "collect_host", "collect_key", "enter_key", "load", "apply",
\*            "deploy", "done", "failed"
\*   mode:    "full" or "skip_terraform"
\*   tfvars:  terraform.tfvars as the run finds it
\*   config:  config.n8n_host and config.n8n_encryption_key
\*   key_from: where the key came from: "none", "generated", "supplied",
\*             "loaded" (history)
\*   entered: the keys typed at the prompt, in order (history)
\*   started: the steps started: "apply", "deploy" (history)
InitSetup ==
    /\ \E mode \in {"full", "skip_terraform"}, t \in TfvarsTexts :
         /\ mode = "full" => ~t.exists
         /\ setup = [ pc |-> IF mode = "full" THEN "collect_host" ELSE "load",
                      mode |-> mode, tfvars |-> t,
                      config |-> [n8n_host |-> "", n8n_encryption_key |-> NoKey],
                      key_from |-> "none", entered |-> <<>>, started |-> {} ]
    /\ byo = NoByo
    /\ StoreIdle
    /\ FuIdle
    /\ NoRun
    /\ PollIdle
    /\ TeardownIdle
    /\ CertIdle

\* `self.config.n8n_host = self.prompt(..., default="n8n.example.com",
\* required=True)`
CollectHost ==
    /\ setup.pc = "collect_host"
    /\ \E answer \in HostAnswers :
         LET r == prompt(answer, "n8n.example.com", TRUE)
         IN  setup' = IF r.asked_again THEN setup
                      ELSE [setup EXCEPT !.config.n8n_host = r.value,
                                         !.pc = "collect_key"]
    /\ UNCHANGED <<storeVars, fuVars, mainVars, pollVars, teardown, certVars, byo>>

\* "Generate a new n8n encryption key?"
CollectKey ==
    /\ setup.pc = "collect_key"
    /\ \E generate \in BOOLEAN :
         setup' = IF generate
                    THEN [setup EXCEPT !.config.n8n_encryption_key = token_hex(32),
                                       !.key_from = "generated", !.pc = "apply"]
                    ELSE [setup EXCEPT !.pc = "enter_key"]
    /\ UNCHANGED <<storeVars, fuVars, mainVars, pollVars, teardown, certVars, byo>>

\* One round of the `while True` loop around the key prompt: the key typed
\* is taken if it passes the test and asked for again otherwise; an EOF
\* raises SetupInterrupted
EnterKey ==
    /\ setup.pc = "enter_key"
    /\ \/ /\ Len(setup.entered) < MaxKeyEntries
          /\ \E key \in KeyTexts :
               setup' = IF key_accepted(key)
                          THEN [setup EXCEPT !.config.n8n_encryption_key = key,
                                             !.key_from = "supplied",
                                             !.entered = Append(@, key),
                                             !.pc = "apply"]
                          ELSE [setup EXCEPT !.entered = Append(@, key)]
       \/ setup' = [setup EXCEPT !.pc = "failed"]
    /\ UNCHANGED <<storeVars, fuVars, mainVars, pollVars, teardown, certVars, byo>>

\* --skip-terraform: load_existing_configuration, sys.exit(1) when it raises
LoadConfigValues ==
    /\ setup.pc = "load"
    /\ LET r == load_config_values(setup.tfvars)
       IN  setup' = IF r.raised
                      THEN [setup EXCEPT !.pc = "failed"]
                      ELSE [setup EXCEPT
                              !.config = [n8n_host |-> r.n8n_host,
                                          n8n_encryption_key |-> r.n8n_encryption_key],
                              !.key_from = IF setup.tfvars.key_line
                                             THEN "loaded" ELSE "none",
                              !.pc = "deploy"]
    /\ UNCHANGED <<storeVars, fuVars, mainVars, pollVars, teardown, certVars, byo>>

\* tf_runner.apply() starts
StartApply ==
    /\ setup.pc = "apply"
    /\ setup' = [setup EXCEPT !.started = @ \cup {"apply"}, !.pc = "deploy"]
    /\ UNCHANGED <<storeVars, fuVars, mainVars, pollVars, teardown, certVars, byo>>

\* helm_runner.deploy_n8n starts
StartDeploy ==
    /\ setup.pc = "deploy"
    /\ setup' = [setup EXCEPT !.started = @ \cup {"deploy"}, !.pc = "done"]
    /\ UNCHANGED <<storeVars, fuVars, mainVars, pollVars, teardown, certVars, byo>>

NextSetup ==
    \/ CollectHost
    \/ CollectKey
    \/ EnterKey
    \/ LoadConfigValues
    \/ StartApply
    \/ StartDeploy

SpecSetup == InitSetup /\ [][NextSetup]_vars

(***************************************************************************)
(* configure_tls_interactive, "Bring Your Own Certificate"                 *)
(***************************************************************************)
\* The certificates the operator can give: what openssl derives from each
ByoCerts ==
    { [cert_modulus |-> m, enddate |-> e,
       text |-> [sans |-> << <<"a">> \o ExampleCom, <<"b">> \o ExampleCom >>,
                 cn |-> <<>>]] :
         m \in {"m1", "m2"}, e \in {"valid", "expired"} }

\* The private keys the operator can give
ByoKeys == { [key_modulus |-> m] : m \in {"m1", "m2"} }

\* config.n8n_host
ByoHosts == { <<"a">> \o ExampleCom, <<"b">> \o ExampleCom }

\* What happens in the `try` that creates the TLS secret:
\*   ok           - kubectl returns 0
\*   rc_nonzero   - kubectl returns non-zero
\*   create_crt   - NamedTemporaryFile(suffix='.crt') raises
\*   write_crt    - cert_file.write raises
\*   create_key   - NamedTemporaryFile(suffix='.key') raises
\*   write_key    - key_file.write raises
\*   run_raises   - subprocess.run raises
SecretOutcomes ==
    {"ok", "rc_nonzero", "create_crt", "write_crt", "create_key", "write_key", "run_raises"}

\* The temporary files (delete=False) there are when the `try` is left:
\* os.unlink is reached only after subprocess.run returned
secret_tmp_left(outcome) ==
    CASE outcome \in {"ok", "rc_nonzero"}       -> {}
      [] outcome = "create_crt"                 -> {}
      [] outcome \in {"write_crt", "create_key"} -> {"crt"}
      [] outcome \in {"write_key", "run_raises"} -> {"crt", "key"}

\* The call at its start, the prompts for the two PEM files answered.
\*   pc:        "validate", "secret", "upgrade", "returned", "raised"
\*   config:    tls_certificate_crt, tls_certificate_key and n8n_host
\*   tmp:       what the temporary files of validate_certificate_chain do
\*   validated: the arguments validate_certificate_chain returned ok=True
\*              for (history)
\*   failed:    validate_certificate_chain returned ok=False or raised
\*              (history)
\*   secret:    the certificate and key `kubectl create secret tls` was
\*              given and stored (history)
\*   tried:     the secret-creation step was gone into (history)
\*   tmp_left:  the temporary files of the secret-creation step still there
\*   upgraded:  upgrade_n8n_with_tls was called (history)
\*   ret:       the value returned
InitByo ==
    /\ \E c \in ByoCerts, k \in ByoKeys, h \in ByoHosts, t \in TmpOutcomes :
         byo = [ pc |-> "validate",
                 config |-> [tls_certificate_crt |-> c, tls_certificate_key |-> k,
                             n8n_host |-> h],
                 tmp |-> t, validated |-> {}, failed |-> FALSE, secret |-> {},
                 tried |-> FALSE, tmp_left |-> {}, upgraded |-> FALSE, ret |-> FALSE ]
    /\ setup = NoSetup
    /\ StoreIdle
    /\ FuIdle
    /\ NoRun
    /\ PollIdle
    /\ TeardownIdle
    /\ CertIdle

\* validate_certificate_chain(config.tls_certificate_crt,
\* config.tls_certificate_key, config.n8n_host); `return False` when it is
\* not valid, whatever the operator answers to "Try again with different
\* files?"
ByoValidate ==
    /\ byo.pc = "validate"
    /\ LET c == byo.config
           r == validate_certificate_chain(
                    [called |-> FALSE, tmp |-> byo.tmp,
                     cert_modulus |-> c.tls_certificate_crt.cert_modulus,
                     key_modulus |-> c.tls_certificate_key.key_modulus,
                     enddate |-> c.tls_certificate_crt.enddate,
                     text |-> c.tls_certificate_crt.text,
                     domain |-> c.n8n_host])
       IN  byo' = IF r.raised
                    THEN [byo EXCEPT !.pc = "raised", !.failed = TRUE]
                  ELSE IF ~r.ok
                    THEN [byo EXCEPT !.pc = "returned", !.failed = TRUE, !.ret = FALSE]
                  ELSE [byo EXCEPT !.pc = "secret", !.validated = {c}]
    /\ UNCHANGED <<storeVars, fuVars, mainVars, pollVars, teardown, certVars, setup>>

\* The `try` that writes the certificate and the key to temporary files and
\* runs `kubectl create secret tls n8n-tls --cert= --key=`
ByoCreateSecret ==
    /\ byo.pc = "secret"
    /\ \E outcome \in SecretOutcomes :
         byo' = [byo EXCEPT
                   !.tried = TRUE,
                   !.tmp_left = secret_tmp_left(outcome),
                   !.secret = IF outcome = "ok"
                                THEN {[crt |-> byo.config.tls_certificate_crt,
                                       key |-> byo.config.tls_certificate_key]}
                                ELSE {},
                   !.pc = IF outcome = "ok" THEN "upgrade" ELSE "returned",
                   !.ret = FALSE]
    /\ UNCHANGED <<storeVars, fuVars, mainVars, pollVars, teardown, certVars, setup>>

\* helm_runner.upgrade_n8n_with_tls; its result is returned
ByoUpgrade ==
    /\ byo.pc = "upgrade"
    /\ \E success \in BOOLEAN :
         byo' = [byo EXCEPT !.upgraded = TRUE, !.ret = success, !.pc = "returned"]
    /\ UNCHANGED <<storeVars, fuVars, mainVars, pollVars, teardown, certVars, setup>>

NextByo == ByoValidate \/ ByoCreateSecret \/ ByoUpgrade

SpecByo == InitByo /\ [][NextByo]_vars

(***************************************************************************)
(* Claims about the environment state store (SpecStore)                    *)
(***************************************************************************)
Live == tfstate[StoreDir]

Snaps == backups[StoreDir]

\* The step is a call of op.
Called(op) == call'.seq # call.seq /\ call'.op = op

\* The snapshot file the call of this step names.
CallName == BackupName(call'.key)

\* C3, as claimed: restore_for_key(dir, r2) on a resource-bearing live state A
\* with a stored snapshot for r2 returns true and leaves the live state equal
\* to the r2 snapshot and A as the content of some snapshot file; the live
\* state is not overwritten when A was not copied.
C3_RestoreNeverLosesLive ==
    [][ (Called("restore") /\ HasResources(Live) /\ Snaps[CallName] # "absent")
          => /\ call'.ret = TRUE
             /\ Live' = Snaps[CallName]
             /\ \E n \in BackupNames : Snaps'[n] = Live
             /\ ((\A n \in BackupNames : Snaps'[n] # Live) => Live' = Live) ]_vars

\* C4, as claimed: every resource-bearing state that a restore copied to its
\* timestamp backup and then overwrote as live state is still the content of
\* some snapshot file, whatever calls follow (same clock second, keys of
\* digits only).
C4_TimestampCopiesKept ==
    \A c \in preserved : \E n \in BackupNames : Snaps[n] = c

\* C5: restore_for_key with no snapshot for the key returns false, leaves the
\* live state and every snapshot file unchanged and creates no snapshot file.
C5_RestoreMissingKeyIsNoop ==
    [][ (Called("restore") /\ Snaps[CallName] = "absent")
          => /\ call'.ret = FALSE
             /\ tfstate' = tfstate
             /\ backups' = backups ]_vars

\* A restore of a missing key was called on a resource-bearing live state
\* with other snapshots present.
C5_Witness ==
    /\ call.op = "restore"
    /\ call.ret = FALSE
    /\ Snaps[BackupName(call.key)] = "absent"
    /\ HasResources(Live)
    /\ \E n \in BackupNames : Snaps[n] # "absent"

\* C6: snapshot_for_key returns false and writes or changes no snapshot file
\* when the live state file is absent, unreadable or without managed
\* resources; an existing snapshot for the key is never replaced.
C6_SnapshotOfEmptyIsNoop ==
    [][ (Called("save") /\ ~HasResources(Live))
          => /\ call'.ret = FALSE
             /\ backups' = backups
             /\ tfstate' = tfstate ]_vars

\* A save was called on an empty live state while a snapshot for the key
\* existed, and the snapshot is still there.
C6_Witness ==
    /\ call.op = "save"
    /\ call.ret = FALSE
    /\ Live = "empty"
    /\ HasResources(Snaps[BackupName(call.key)])

\* C7, as claimed: with a resource-bearing live state snapshot_for_key
\* returns true, makes the snapshot for the key equal to the live state and
\* leaves the live state unchanged.
C7_SnapshotAlwaysSucceeds ==
    [][ (Called("save") /\ HasResources(Live))
          => /\ call'.ret = TRUE
             /\ Snaps'[CallName] = Live
             /\ Live' = Live ]_vars

\* C7, amended: with a resource-bearing live state snapshot_for_key leaves
\* the live state and every other snapshot unchanged and returns true exactly
\* when the copy did not raise; when it returns true the snapshot for the key
\* equals the live state, and a second successful call right after a
\* successful one for the same key leaves the snapshot as it was.
C7_SnapshotCopiesLive ==
    [][ (Called("save") /\ HasResources(Live))
          => /\ Live' = Live
             /\ call'.ret = ~call'.raised
             /\ call'.ret => Snaps'[CallName] = Live
             /\ \A n \in BackupNames \ {CallName} : Snaps'[n] = Snaps[n]
             /\ (call.op = "save" /\ call.ret /\ call.key = call'.key /\ call'.ret)
                   => Snaps'[CallName] = Snaps[CallName] ]_vars

\* A successful save was called on a resource-bearing live state and the
\* snapshot for its key now equals it.
C7_Witness ==
    /\ call.op = "save"
    /\ call.ret = TRUE
    /\ HasResources(Live)
    /\ Snaps[BackupName(call.key)] = Live

(***************************************************************************)
(* Claims about the configuration artifact manager (SpecFU)                *)
(***************************************************************************)
\* C1, as claimed: create_backup(), the apply(config) file mutations and then
\* restore() leave the whole live tree as it was before the apply, files the
\* apply created included.
C1_BackupRoundTrip ==
    [][ (fuCall.op = "apply" /\ ~fuCall.raised /\ fuCall'.op = "restore" /\ nfu' = nfu + 1)
          => files' = preApply ]_vars

\* C2, as claimed: whenever apply(config) raises, the caller sees the live
\* tree equal to its content before the apply.
C2_ApplyRaisesRestored ==
    (fuCall.op = "apply" /\ fuCall.raised) => files = preApply

(***************************************************************************)
(* Claims about a deployment run (SpecMain)                                *)
(***************************************************************************)
PhasesInOrder ==
    \A i \in 1..Len(phases), j \in 1..Len(phases) :
        i < j => Rank(phases[i]) < Rank(phases[j])

\* C8: in a full deployment run the phases occur only in the listed order,
\* each after the previous one succeeded: terraform apply is not invoked
\* before a successful credential check, configuration collection,
\* configuration apply, init and plan; the application deploy is not invoked
\* before a successful terraform apply and a successful cluster-credential
\* configuration.
C8_PhasesInListedOrder ==
    /\ PhasesInOrder
    /\ pc = "tf_apply" =>
          /\ Reached("CredentialsVerified")
          /\ Reached("ConfigCollected")
          /\ Reached("ConfigApplied")
          /\ tfdone = {"init", "plan"}
    /\ (hist.mode = "full" /\ [dir |-> "charts", cmd |-> "deploy"] \in invoked) =>
          /\ Reached("InfraApplied")
          /\ Reached("ClusterConfigured")

\* C9: for every selectable cloud the run goes past the credential step only
\* after a successful account check; a failed check raises SetupInterrupted
\* at once, and no configuration file is written and no terraform command
\* is run afterwards.
C9_FailedCheckEndsRun ==
    cred = "failed" =>
        /\ pc \in {"handler", "exited"}
        /\ exc = "SetupInterrupted"
        /\ files = preApply
        /\ invoked = {}

\* C10: before every terraform apply of a deployment run, a live state with
\* managed resources has been copied to a snapshot (region/location key, or
\* timestamp key): apply is not invoked while such a state exists only in
\* the live file.
C10_SnapshotBeforeApply ==
    (pc = "tf_apply" /\ HasResources(tfstate[tfdir])) =>
        \E n \in BackupNames : backups[tfdir][n] = tfstate[tfdir]

(***************************************************************************)
(* Claims about the endpoint poll (SpecPoll)                               *)
(***************************************************************************)
IsAddress(a) == a # "" /\ a \notin ProbeRaises

\* The attempt finds an address: the hostname call answers one, or it
\* answers nothing and the IP call answers one.
Succeeds(p) ==
    \/ IsAddress(p.hostname)
    \/ p.hostname = "" /\ IsAddress(p.ip)

ValueOf(p) == IF IsAddress(p.hostname) THEN p.hostname ELSE p.ip

AttemptsMade(log) == {log[i].attempt : i \in {j \in DOMAIN log : log[j].ev = "probe"}}

HostnameProbes(log) ==
    {i \in DOMAIN log : log[i].ev = "probe" /\ log[i].what = "hostname"}

SleepsMade(log) == {i \in DOMAIN log : log[i].ev = "sleep"}

PollNeverSucceeds ==
    \A k \in 1..poll_in.max_attempts : ~Succeeds(poll_in.probes[k])

\* the first attempt that succeeds; 0 if none does
FirstSuccess ==
    IF PollNeverSucceeds THEN 0
    ELSE CHOOSE k \in 1..poll_in.max_attempts :
            /\ Succeeds(poll_in.probes[k])
            /\ \A j \in 1..(k - 1) : ~Succeeds(poll_in.probes[j])

\* C15: a probe that never succeeds makes the poll run exactly max_attempts
\* attempts for every max_attempts >= 1, sleep the constant delay exactly
\* max_attempts - 1 times, never after the final attempt, and return the
\* empty sentinel, also when an attempt raises.
C15_PollExhaustion ==
    (poll_out.called /\ poll_in.max_attempts >= 1 /\ PollNeverSucceeds) =>
        /\ poll_out.result = None
        /\ AttemptsMade(poll_out.log) = 1..poll_in.max_attempts
        /\ Cardinality(HostnameProbes(poll_out.log)) = poll_in.max_attempts
        /\ Cardinality(SleepsMade(poll_out.log)) = poll_in.max_attempts - 1
        /\ \A i \in SleepsMade(poll_out.log) :
              /\ poll_out.log[i].seconds = poll_in.delay
              /\ poll_out.log[i].attempt < poll_in.max_attempts
        /\ poll_out.log[Len(poll_out.log)].ev = "probe"

C15_Witness ==
    /\ poll_out.called
    /\ poll_in.max_attempts >= 2
    /\ PollNeverSucceeds
    /\ \E k \in 1..poll_in.max_attempts : poll_in.probes[k].hostname \in ProbeRaises
    /\ \E k \in 1..poll_in.max_attempts : poll_in.probes[k].ip \in ProbeRaises
                                          /\ poll_in.probes[k].hostname = ""
    /\ poll_out.result = None

\* C16: the poll returns the first address found at the attempt that found
\* it: if attempt k <= max_attempts is the first to succeed, exactly k
\* attempts and k - 1 sleeps happen, the value returned is that attempt's
\* (the hostname rather than the IP), and no attempt or sleep follows.
C16_PollFirstSuccess ==
    (poll_out.called /\ FirstSuccess > 0) =>
        LET k == FirstSuccess
            p == poll_in.probes[k]
            n == Len(poll_out.log)
        IN  /\ poll_out.result = ValueOf(p)
            /\ IsAddress(p.hostname) => poll_out.result = p.hostname
            /\ AttemptsMade(poll_out.log) = 1..k
            /\ Cardinality(HostnameProbes(poll_out.log)) = k
            /\ Cardinality(SleepsMade(poll_out.log)) = k - 1
            /\ \A i \in SleepsMade(poll_out.log) :
                  poll_out.log[i].seconds = poll_in.delay
            /\ poll_out.log[n].ev = "probe"
            /\ poll_out.log[n].attempt = k
            /\ poll_out.log[n].what = IF IsAddress(p.hostname) THEN "hostname" ELSE "ip"

C16_Witness ==
    /\ poll_out.called
    /\ FirstSuccess >= 2
    /\ FirstSuccess < poll_in.max_attempts
    /\ IsAddress(poll_in.probes[FirstSuccess].hostname)
    /\ IsAddress(poll_in.probes[FirstSuccess].ip)
    /\ poll_out.result = poll_in.probes[FirstSuccess].hostname

(***************************************************************************)
(* Claims about the later phases of a deployment run (SpecMain)            *)
(***************************************************************************)
\* C11, as claimed: after a successful terraform apply the snapshot under the
\* new environment's region/location key equals the live state before the
\* next phase (cluster-credential configuration) starts; a step in which
\* apply fails writes no snapshot.
C11_SnapshotAfterApply ==
    /\ [](pc = "kubectl" => backups[tfdir][BackupName(NewKey)] = tfstate[tfdir])
    /\ [][(pc = "tf_applying" /\ exc' # "none") => backups' = backups]_vars

\* C12, as claimed: once the cluster-credential command has failed, in any
\* mode, the run is on its way out: no application deploy, no endpoint poll
\* and no TLS configuration is attempted, and the exit code is not 0.
C12_KubectlFailureIsFatal ==
    hist.kubectl = "failed" =>
        /\ pc \in {"handler", "exited"}
        /\ [dir |-> "charts", cmd |-> "deploy"] \notin invoked
        /\ [dir |-> "cluster", cmd |-> "get-endpoint"] \notin invoked
        /\ "tls" \notin hist.prompts
        /\ pc = "exited" => exit_code # 0

\* C13: when the endpoint poll of a deployment run (full or --skip-terraform)
\* returns the empty sentinel, no exception is raised: the endpoint recorded
\* is the pending marker, the run goes on to its completion, and when it has
\* exited it has reached Done with exit code 0.
C13_PollExhaustionNotFatal ==
    (hist.mode # "configure_tls" /\ hist.poll = None) =>
        /\ lb_url = PendingMarker
        /\ exc = "none"
        /\ pc \in {"cleanup", "exited"}
        /\ pc = "exited" => (Reached("Done") /\ exit_code = 0)

C13_Witness ==
    /\ hist.mode = "full"
    /\ hist.poll = None
    /\ lb_url = PendingMarker
    /\ pc = "exited"
    /\ Reached("Done")
    /\ exit_code = 0

\* the poll of the run returned an address
PollFoundAddress == hist.poll \notin {"none", None}

\* a TLS or basic-auth command was run against the cluster
HardeningCommand(name) == [dir |-> "cluster", cmd |-> name] \in invoked

\* C14: security hardening is gone into only with an address from the
\* endpoint poll and the operator's yes: with the pending marker as endpoint
\* no TLS or basic-auth prompt is shown and no TLS or basic-auth command is
\* run; a TLS or basic-auth command is run only after the poll found an
\* address and the operator said yes to that step's prompt; SecurityHardened
\* is reached only that way.
C14_HardeningOnlyOnOptIn ==
    /\ lb_url = PendingMarker =>
          /\ hist.prompts = {}
          /\ ~HardeningCommand("tls")
          /\ ~HardeningCommand("basic_auth")
    /\ \A name \in {"tls", "basic_auth"} :
          /\ name \in hist.prompts => PollFoundAddress
          /\ HardeningCommand(name) => (PollFoundAddress /\ name \in hist.optins)
    /\ Reached("SecurityHardened") => (PollFoundAddress /\ hist.optins # {})

C14_Witness ==
    /\ pc = "exited"
    /\ hist.mode = "full"
    /\ PollFoundAddress
    /\ hist.prompts = {"tls", "basic_auth"}
    /\ hist.optins = {"basic_auth"}
    /\ ~HardeningCommand("tls")
    /\ HardeningCommand("basic_auth")
    /\ Reached("SecurityHardened")

\* C17, as claimed: a run in which SetupInterrupted or another exception was
\* raised once the configuration backup existed (at or after the
\* config-apply step), the interrupt raised by the SIGINT handler during the
\* endpoint poll included, has called restore_backup and then cleanup_backup
\* when it has exited, and its exit code is not 0.
C17_RaiseIsRestoredAndCleaned ==
    (pc = "exited" /\ hist.mode = "full" /\ updater /\ (exc # "none" \/ hist.caught)) =>
        /\ hist.handled = <<"restore_backup", "cleanup_backup">>
        /\ exit_code # 0

\* C18, as claimed: a run in which the operator interrupted a prompt of the
\* configuration collection has, when it has exited, run no terraform apply,
\* left every configuration artifact and history file as it was before the
\* run, and exited with code 1.
C18_InterruptedCollectionChangesNothing ==
    (pc = "exited" /\ hist.interrupted) =>
        /\ \A d \in Dirs : [dir |-> d, cmd |-> "apply"] \notin invoked
        /\ files = preApply
        /\ exit_code = 1

\* the variables file, the values file and the generated tfvars of each cloud
RolledBackArtifacts ==
    {"variables.tf", "values.yaml", "terraform.tfvars", "azure/terraform.tfvars"}

\* C19, as claimed: a deployment run the operator cancelled (SetupInterrupted,
\* for one from a no or an interrupt at the confirmation before terraform
\* apply, when the artifacts were already rewritten) has, when it has exited,
\* the variables file, the values file and the generated tfvars file equal
\* to their content before the run.
C19_CancellationRollsBack ==
    (pc = "exited" /\ hist.mode = "full" /\ exc = "SetupInterrupted") =>
        \A f \in RolledBackArtifacts : files[f] = preApply[f]

\* the phases of the run from the infrastructure apply to the hardening
LaterPhases ==
    SelectSeq(phases, LAMBDA p : p \in {"InfraApplied", "ClusterConfigured", "AppDeployed",
                                        "EndpointDiscovered", "SecurityHardened"})

\* every tool and file operation of the run succeeded, the operator
\* answered every prompt of the collection and the confirmations with yes,
\* and said no to both hardening prompts
NoFaultRunDecliningHardening ==
    /\ hist.mode = "full"
    /\ ~hist.faults
    /\ hist.optins = {}
    /\ deploy_config # EmptyConfig
    /\ deploy_config.database_type = "sqlite"

\* C20, as claimed: a full run with a valid configuration, database type
\* sqlite and TLS source none, in which every external tool succeeds and the
\* operator declines hardening, has when it has exited passed through
\* InfraApplied, ClusterConfigured, AppDeployed and EndpointDiscovered, in
\* that order and once each, has not entered SecurityHardened, and has exit
\* code 0.
C20_NoFaultRunCompletes ==
    (pc = "exited" /\ NoFaultRunDecliningHardening) =>
        /\ LaterPhases = <<"InfraApplied", "ClusterConfigured", "AppDeployed",
                           "EndpointDiscovered">>
        /\ Reached("Done")
        /\ exit_code = 0

(***************************************************************************)
(* Further claims about the configuration artifact manager (SpecFU)        *)
(***************************************************************************)
\* the temporary directories that hold a backup
LiveBackups == {i \in 1..MaxBackupDirs : tmpdirs[i].kind = "backup"}

\* C21, as claimed: create_backup is idempotent on one FileUpdater: after any
\* sequence of create_backup and apply_configuration calls at most one backup
\* directory exists, and a call made while a backup exists leaves the backup
\* directory and its content as they were (only the first call has effect).
C21_SingleBackup ==
    /\ [](Cardinality(LiveBackups) <= 1)
    /\ [][ (BackupExists(backup_dir, tmpdirs) /\ fuCall'.op \in {"create_backup", "apply"}
            /\ nfu' = nfu + 1)
           => (backup_dir' = backup_dir /\ tmpdirs' = tmpdirs) ]_vars

\* C22: restore_backup leaves every file as it is when no backup exists:
\* before any create_backup, after cleanup_backup, and after
\* create_terraform_tfvars_azure wrote the Azure tfvars with no backup made.
C22_RestoreWithoutBackupIsNoop ==
    [][ (fuCall'.op = "restore" /\ nfu' = nfu + 1 /\ ~BackupExists(backup_dir, tmpdirs))
          => (files' = files /\ tmpdirs' = tmpdirs /\ backup_dir' = backup_dir) ]_vars

\* restore_backup was just called after the Azure tfvars were written with
\* no backup made
C22_Witness ==
    /\ fuCall.op = "restore"
    /\ backup_dir = 0
    /\ files["azure/terraform.tfvars"] # NoFile

(***************************************************************************)
(* Claims about the teardown (SpecTeardown)                                *)
(***************************************************************************)
\* the teardown run has left run / execute, by return or by exception
TeardownOver == teardown.pc \in {"returned", "handler", "exited"}

\* C23, as claimed: the phases of a teardown start in the order 1, 2, 3, 4,
\* and once the first has started all four run, whatever a phase returns or
\* raises, for AWS and for Azure, also with the cluster unreachable or the
\* state missing.
C23_AllPhasesRun ==
    /\ \A i \in DOMAIN teardown.started : teardown.started[i] = i
    /\ (TeardownOver /\ teardown.counted) => teardown.started = <<1, 2, 3, 4>>

\* C24: no phase of a teardown starts, and no uninstall, delete or destroy
\* command is run, unless the operator answered yes to the confirmation and
\* the countdown then ran to its end with no interrupt; a teardown that
\* ended after a no or an interrupted countdown has started no phase and
\* run no command.
C24_NothingDeletedWithoutConfirmation ==
    /\ (teardown.started # <<>> \/ teardown.cmds # {}) =>
          (teardown.confirmed /\ teardown.counted)
    /\ (TeardownOver /\ ~(teardown.confirmed /\ teardown.counted)) =>
          (teardown.started = <<>> /\ teardown.cmds = {})

\* the countdown of a confirmed teardown was interrupted: the run has ended
\* with nothing started
C24_Witness ==
    /\ teardown.pc = "exited"
    /\ teardown.confirmed
    /\ ~teardown.counted
    /\ teardown.left < CountdownSeconds
    /\ teardown.started = <<>>
    /\ teardown.cmds = {}

(***************************************************************************)
(* Claims about the exit of a run (SpecMain)                               *)
(***************************************************************************)
\* the operation the command line selects did what it is for: the
\* deployment reached Done, the TLS-only run configured TLS, the run with
\* --restore-region alone put the named snapshot in place
OperationSucceeded ==
    IF hist.mode = "configure_tls"
      THEN "tls" \in hist.optins /\ [dir |-> "cluster", cmd |-> "tls"] \in invoked
    ELSE IF hist.mode = "full" /\ hist.restore # ""
      THEN tfstate[cloud] = backups[cloud][BackupName(hist.restore)]
            /\ tfstate[cloud] # "absent"
      ELSE Reached("Done")

\* an exception was raised in the run, the SetupInterrupted of a Ctrl+C
\* during the endpoint poll included
ErrorOrCancellation == exc # "none" \/ hist.caught

\* C25, as claimed: a run that has exited has exit code 0 or 1; the code is
\* 1 after every fatal error and every cancellation by the operator, and 0
\* only when the selected operation succeeded.
C25_ExitCodeTellsSuccess ==
    pc = "exited" =>
        /\ exit_code \in {0, 1}
        /\ ErrorOrCancellation => exit_code = 1
        /\ exit_code = 0 => OperationSucceeded

(***************************************************************************)
(* Claims about the certificate validator (SpecCert)                       *)
(***************************************************************************)
\* the temporary files were written, so that the checks were run
ChecksRun == cert_out.called /\ cert_in.tmp = "ok"

\* C26: the checks run in the order key pair, expiry, hostname and stop at
\* the first that fails: when the modulus derived from the certificate and
\* the one derived from the key differ, one of them underivable included,
\* the call returns ok=False with the key-mismatch message whatever the
\* expiry and the hostname are; an expired certificate with a matching key
\* is reported as expired whatever the hostname is.
C26_KeyMismatchFirst ==
    /\ (ChecksRun /\ cert_in.cert_modulus # cert_in.key_modulus) =>
          (~cert_out.raised /\ ~cert_out.ok /\ cert_out.msg = "mismatch")
    /\ (ChecksRun /\ cert_in.cert_modulus = cert_in.key_modulus
        /\ cert_in.enddate = "expired") =>
          (~cert_out.raised /\ ~cert_out.ok /\ cert_out.msg = "expired")

\* the key's modulus could not be derived, the certificate is expired and
\* the hostname is the first of two SAN entries
C26_Witness ==
    /\ ChecksRun
    /\ cert_in.cert_modulus = "m1"
    /\ cert_in.key_modulus = ""
    /\ cert_in.enddate = "expired"
    /\ Len(cert_in.text.sans) = 2
    /\ cert_in.text.sans[1] = cert_in.domain
    /\ cert_out.msg = "mismatch"

\* the key matches and the certificate has not expired, so that the
\* hostname check decides
HostnameCheckDecides ==
    /\ ChecksRun
    /\ cert_in.cert_modulus = cert_in.key_modulus
    /\ cert_in.enddate = "valid"

\* a hostname of exactly one non-empty label followed by the labels after
\* the star of the wildcard
OneLabelUnder(domain, wildcard) ==
    /\ Len(domain) = Len(wildcard)
    /\ domain[1] # ""
    /\ \A i \in 2..Len(wildcard) : domain[i] = wildcard[i]

\* C27, as claimed: when one candidate name is considered, the hostname is
\* authorized if and only if the candidate is a wildcard *.<suffix> and the
\* hostname is exactly one non-empty label followed by .<suffix>, or the
\* candidate is no wildcard and the hostname is identical to it.
C27_WildcardOneLabel ==
    HostnameCheckDecides =>
        \A c \in CertNames :
            valid_domains(cert_in.text) = {c} =>
                (cert_out.ok <=> IF c[1] = "*" THEN OneLabelUnder(cert_in.domain, c)
                                               ELSE cert_in.domain = c)

\* every SAN DNS entry of the certificate together with its common name
AllCandidates ==
    {cert_in.text.sans[i] : i \in DOMAIN cert_in.text.sans}
        \cup (IF cert_in.text.cn = <<>> THEN {} ELSE {cert_in.text.cn})

\* C28, as claimed: the hostname check considers every SAN DNS entry and
\* the common name: a hostname identical to a SAN entry, at whatever place
\* of the list, is authorized, and the message of a rejection lists all the
\* candidates.
C28_EverySanConsidered ==
    HostnameCheckDecides =>
        /\ (\E i \in DOMAIN cert_in.text.sans : cert_in.text.sans[i] = cert_in.domain)
              => cert_out.ok
        /\ cert_out.msg = "not_valid_for_domain" => cert_out.listed = AllCandidates

\* C29, as claimed: the call never raises to its caller: when a step before
\* the checks or inside them fails (the temporary files cannot be created
\* or written, the certificate has no expiry date) it returns ok=False with
\* a message; and no temporary file it created is left behind, whether it
\* succeeds or fails.
C29_NeverRaisesAndCleansUp ==
    cert_out.called =>
        /\ ~cert_out.raised
        /\ cert_out.left = {}
        /\ (cert_in.tmp # "ok" \/ cert_out.msg = "unexpected") => ~cert_out.ok

\* A precondition of the run failed: load_existing_configuration found no
\* usable terraform.tfvars, or the AWS credential check failed.
PreconditionFailed ==
    hist.unmet \/ (cloud = "aws" /\ cred = "failed")

\* C30: a run that ends on a failed precondition has changed nothing: the
\* Terraform state and its snapshots are as they were, no configuration file
\* was written, no terraform step ran and no command was sent to a cluster,
\* with --restore-region given or not.
C30_PreconditionFailureChangesNothing ==
    (pc = "exited" /\ PreconditionFailed)
        => /\ ~hist.restored
           /\ files = preApply
           /\ tfdone = {}
           /\ invoked = {}
           /\ exit_code = 1

(***************************************************************************)
(* Claims about the configuration values of a run (SpecSetup)              *)
(***************************************************************************)
\* C31: once an apply or a deploy step has started, config.n8n_host is not
\* empty, and config.n8n_encryption_key, if it was generated, typed in or
\* read from terraform.tfvars, is 64 characters long and all of them are
\* hexadecimal digits.
C31_HostAndKeyValidAtApply ==
    setup.pc # "idle" /\ setup.started # {}
        => /\ setup.config.n8n_host # ""
           /\ setup.key_from # "none"
                => /\ setup.config.n8n_encryption_key.len = 64
                   /\ setup.config.n8n_encryption_key.hex

(***************************************************************************)
(* Claims about the Azure deployment and the hardening steps (SpecMain)    *)
(***************************************************************************)
\* C32: in a deployment run for azure, once the Azure infrastructure is
\* applied and the application deployed, no TerraformRunner is made for
\* terraform/aws, no command is run there, no AWS-only field of the config
\* is read (no exception comes of it), and a run that has exited has exit
\* code 0.
C32_AzureRunEndsAfterDeploy ==
    (hist.mode = "full" /\ hist.restore = "" /\ cloud = "azure" /\ Reached("AppDeployed"))
        => /\ tfdir # "aws"
           /\ \A c \in invoked : c.dir # "aws"
           /\ exc = "none"
           /\ pc = "exited" => exit_code = 0

\* The hardening of a deployment run (PHASE 4 of main), not the TLS-only run
HardeningOfDeployment ==
    hist.mode \in {"full", "skip_terraform"} /\ hist.hardening # <<>>

\* C33: in the hardening of a deployment run the TLS step comes first and
\* the basic-auth step after it; the basic-auth step is gone into whether
\* the TLS step was skipped, failed or succeeded (everything but the
\* operator interrupting it); and when neither step was interrupted the run
\* does not end with exit code 1, however the steps went.
C33_TlsThenBasicAuthIndependent ==
    HardeningOfDeployment =>
        LET h == hist.hardening
        IN  /\ h[1].step = "tls"
            /\ \A i \in DOMAIN h : h[i].step = "basic_auth" => i = 2
            /\ h[1].went # "interrupt" => Len(h) = 2
            /\ (\A i \in DOMAIN h : h[i].went # "interrupt")
                  => /\ exc = "none"
                     /\ pc = "exited" => exit_code = 0

(***************************************************************************)
(* Claims about the bring-your-own TLS path (SpecByo)                      *)
(***************************************************************************)
\* C34: a certificate and key are stored as the cluster's TLS secret only
\* if validate_certificate_chain returned ok=True for that certificate,
\* that key and config.n8n_host; after a validation that failed there is no
\* secret and no TLS upgrade of the release; and once the secret-creation
\* step is over, no temporary file holding the private key is left.
C34_SecretOnlyAfterValidation ==
    byo.pc # "idle" =>
        /\ \A s \in byo.secret :
              \E v \in byo.validated :
                 /\ v.tls_certificate_crt = s.crt
                 /\ v.tls_certificate_key = s.key
                 /\ v.n8n_host = byo.config.n8n_host
        /\ byo.failed => (byo.secret = {} /\ ~byo.tried /\ ~byo.upgraded)
        /\ (byo.tried /\ byo.pc \in {"upgrade", "returned"}) => "key" \notin byo.tmp_left

(***************************************************************************)
(* Claims about phases 3 and 4 of the teardown and the restore before it   *)
(* (SpecTeardown)                                                          *)
(***************************************************************************)
\* the places of a command in the log of the teardown
Places(command) == {i \in DOMAIN teardown.log : teardown.log[i] = command}

\* phase 3 of an AWS teardown has been run
AwsPhase3Over == teardown.cloud = "aws" /\ Len(teardown.started) >= 3

\* C35: in phase 3 of the AWS teardown, when deletion protection was found
\* on the database the modify-db-instance call was made and comes before
\* the terraform destroy call; terraform destroy is run whenever the state
\* file is there, whatever the checks for the protection and the clearing
\* of it did; and it is left out only when the state file is absent, the
\* phase then returning True.
C35_ProtectionClearedBeforeDestroy ==
    AwsPhase3Over =>
        /\ teardown.protected =>
              /\ Places("modify-db-instance") # {}
              /\ \A i \in Places("modify-db-instance"), j \in Places("terraform destroy") :
                    i < j
        /\ teardown.state => Places("terraform destroy") # {}
        /\ Places("terraform destroy") = {} => (~teardown.state /\ teardown.results[3])

\* protection was found, the call that clears it was made, and terraform
\* destroy was run after it and failed
C35_Witness ==
    /\ AwsPhase3Over
    /\ teardown.protected
    /\ teardown.log = <<"state list", "state show", "describe-db-instances",
                        "modify-db-instance", "terraform destroy">>
    /\ ~teardown.results[3]

\* the delete-secret commands in the log
DeletePlaces == {i \in DOMAIN teardown.log :
                    \E s \in Secrets : teardown.log[i] = "delete-secret " \o s}

\* C36: a secret is deleted, and a delete-secret command run, only after
\* the operator answered the deletion prompt of this run with yes (typed,
\* or Enter for the default yes), and only for secrets that were listed;
\* after a yes delete-secret is run for every listed secret, whether the
\* deletion of another one failed or raised; the Azure teardown deletes
\* nothing.
C36_SecretsDeletedOnlyOnConfirmation ==
    /\ (teardown.deleted # {} \/ DeletePlaces # {}) =>
          (teardown.answer \in {"y", ""} /\ teardown.confirmed /\ teardown.cloud = "aws")
    /\ teardown.deleted \subseteq teardown.listed
    /\ \A i \in DeletePlaces :
          \E s \in teardown.listed : teardown.log[i] = "delete-secret " \o s
    /\ teardown.answer \in {"y", ""} =>
          \A s \in teardown.listed : Places("delete-secret " \o s) # {}

\* two secrets were listed, the operator said yes, the deletion of the
\* first failed and the second was deleted all the same
C36_Witness ==
    /\ teardown.listed = {"s1", "s2"}
    /\ teardown.answer = "y"
    /\ teardown.deleted = {"s2"}
    /\ Places("delete-secret s1") # {}

\* C37: with --restore-region and --teardown, no phase starts unless
\* restore_state_for_region returned True; terraform destroy is run on no
\* other state than the snapshot stored under the key; and when the restore
\* returned False the run exits with code 1 and terraform.tfstate is as it
\* was at the start.
C37_TeardownOnlyAfterRestore ==
    teardown.restore # "" =>
        /\ teardown.started # <<>> => teardown.restored = "true"
        /\ teardown.destroyed # "none" =>
              teardown.destroyed = backups[teardown.cloud][BackupName(teardown.restore)]
        /\ teardown.restored = "false" =>
              /\ teardown.pc = "exited"
              /\ teardown.exit_code = 1
              /\ tfstate[teardown.cloud] = teardown.live0

(***************************************************************************)
(* Claims about interrupts and the configuration backup of a deployment    *)
(* run (SpecMain)                                                          *)
(***************************************************************************)
\* C38: a SIGINT that arrives while the run is blocked in the call of an
\* external process (terraform apply) is not intercepted: no
\* SetupInterrupted is raised by it, and the configuration is not restored
\* while the external process is still running.
C38_InterruptNotInterceptedInCall ==
    /\ hist.sigint = "none"
    /\ hist.child = "running" => (pc = "tf_applying" /\ hist.handled = <<>>)

====
